---- MODULE Spec2Model ----
(***************************************************************************)
(* Model of scripts/discover_devices.py: the discovery pipeline            *)
(* (range expansion, ping sweep, SSH port check), the octet classifier and *)
(* the inventory builder, as run by main(); and of the threads and the     *)
(* outcomes of performance_monitor.py, ansible_tester.py and               *)
(* vault_manager.py.                                                       *)
(*                                                                         *)
(* Strings are modelled as sequences of tokens: str(IPv4Address) is        *)
(* <<"192", ".", "168", ".", "1", ".", "5">>.  Python dicts whose order    *)
(* matters (the hosts of a leaf group) are sequences of [name, vars]       *)
(* entries with dict assignment semantics.                                 *)
(***************************************************************************)
EXTENDS Integers, Sequences, FiniteSets, TLC

VARIABLES
    network_range,     \* args.network
    max_workers,       \* args.workers
    ping_reply,        \* responders: what the ping of each address ends in
    ssh_reply,         \* responders: what a connect to port 22 of each ends in
    pc,                \* position of the main thread
    hosts,             \* list(network.hosts())
    pingFut,           \* ping_futures: address -> state of its future
    pingQueue,         \* work queue of the first executor (FIFO)
    pingRes,           \* outcome stored in each finished ping future
    live_hosts,        \* accumulator of the first pass
    ssh_bound,         \* max_workers of the second executor (0: not created)
    sshFut,            \* ssh_futures: address -> state of its future
    sshQueue,          \* work queue of the second executor (FIFO)
    sshRes,            \* outcome stored in each finished ssh future
    ssh_hosts,         \* accumulator of the second pass
    discovered_hosts,  \* return value of discover_network_devices
    inventory,         \* return value of generate_inventory
    build_error,       \* exception raised by generate_inventory ("none": returned)
    output_file,       \* state of the output path
    exit_status,       \* process exit status (-1: still running)
    stdout,            \* messages printed, as tags
    ip_arg,            \* argument of a direct classify_device_type call
    ret,               \* value returned by that call
    document,          \* groups of the text generate_complete_inventory returns
    monitoring,        \* AnsiblePerformanceMonitor.monitoring
    sample_interval,   \* seconds a sampler sleeps between two samples
    iterations,        \* run_performance_test: number of monitored runs
    iteration,         \* the run in progress
    timer,             \* seconds left of the join or of the pause of the main thread
    process,           \* the monitored process: "none", "running", "ended"
    process_age,       \* seconds the monitored process has run
    sampler,           \* run -> position of its collect_metrics thread
    samples,           \* run -> length of its cpu_samples / memory_samples
    read_len,          \* run -> length the lists had when the metrics were made
    parallel,          \* _run_syntax_tests(parallel)
    playbooks,         \* the playbooks the two globs found, in order
    syntax_reply,      \* playbook -> what its ansible-playbook --syntax-check ends in
    synFut,            \* future_to_playbook: playbook -> state of its future
    synQueue,          \* work queue of the executor (FIFO)
    syn_results,       \* results of _run_syntax_tests
    all_results,       \* run_test_suite: the status of every collected result
    summary,           \* run_test_suite: the summary it returns (<<>>: none yet)
    vault_file,        \* the file handed to encrypt_file / decrypt_file
    vault_log          \* the calls made so far, with what each found and did

vars == <<network_range, max_workers, ping_reply, ssh_reply, pc, hosts, pingFut,
          pingQueue, pingRes, live_hosts, ssh_bound, sshFut, sshQueue, sshRes,
          ssh_hosts, discovered_hosts, inventory, build_error, output_file,
          exit_status, stdout, ip_arg, ret, document,
          monitoring, sample_interval, iterations, iteration, timer, process,
          process_age, sampler, samples, read_len,
          parallel, playbooks, syntax_reply, synFut, synQueue, syn_results,
          all_results, summary, vault_file, vault_log>>

monVars   == <<monitoring, sample_interval, iterations, iteration, timer,
               process, process_age, sampler, samples, read_len>>

\* the state of the other scripts, which no step of the discovery touches
synVars   == <<parallel, playbooks, syntax_reply, synFut, synQueue, syn_results>>

suiteVars == <<all_results, summary>>
vaultVars == <<vault_file, vault_log>>

toolVars  == <<monVars, synVars, suiteVars, vaultVars>>

envVars   == <<network_range, max_workers, ping_reply, ssh_reply, toolVars>>
pingVars  == <<hosts, pingFut, pingQueue, pingRes, live_hosts>>
sshVars   == <<ssh_bound, sshFut, sshQueue, sshRes, ssh_hosts>>
buildVars == <<inventory, build_error>>
callVars  == <<ip_arg, ret, document>>

\* the state of discover_devices.py, which no step of the other scripts touches
discoveryVars == <<network_range, max_workers, ping_reply, ssh_reply, pingVars,
                   sshVars, discovered_hosts, buildVars, output_file, stdout,
                   ip_arg, document>>

----------------------------------------------------------------------------
(* Bounds *)

MaxWorkers == 4      \* args.workers ranges over 0..MaxWorkers
MaxHosts   == 3      \* longest list handed directly to generate_inventory
MaxInterval   == 4   \* longest sample interval, in seconds
MaxIterations == 2   \* most monitored runs of one performance test
MaxRun        == 2   \* longest run of the monitored process, in seconds
MaxPlaybooks  == 5   \* most playbooks the globs find
MaxResults    == 10  \* most results a test suite collects
MaxCalls      == 3   \* most calls of encrypt_file / decrypt_file on the file

Octets == 0..255

----------------------------------------------------------------------------
(* Generic helpers *)

RECURSIVE Pow2(_)
Pow2(n) == IF n = 0 THEN 1 ELSE 2 * Pow2(n - 1)

Min(a, b) == IF a < b THEN a ELSE b
Max(a, b) == IF a > b THEN a ELSE b

Range(s) == {s[i] : i \in DOMAIN s}

\* IPv4Address.__lt__: comparison of the 32-bit values, octet by octet
AddrLess(a, b) ==
    \E i \in 1..4 : a[i] < b[i] /\ \A j \in 1..(i - 1) : a[j] = b[j]

\* sorted(xs): ascending and stable, duplicates kept
RECURSIVE Sorted(_)
Sorted(s) ==
    IF s = <<>> THEN <<>>
    ELSE LET i == CHOOSE k \in DOMAIN s :
                     /\ \A j \in DOMAIN s : ~AddrLess(s[j], s[k])
                     /\ \A j \in 1..(k - 1) : AddrLess(s[k], s[j])
             rest == [j \in 1..(Len(s) - 1) |-> IF j < i THEN s[j] ELSE s[j + 1]]
         IN <<s[i]>> \o Sorted(rest)

RECURSIVE SetToSeq(_)
SetToSeq(S) ==
    IF S = {} THEN <<>>
    ELSE LET m == CHOOSE x \in S : \A y \in S : x = y \/ AddrLess(x, y)
         IN <<m>> \o SetToSeq(S \ {m})

----------------------------------------------------------------------------
(* Strings as token sequences *)

\* str(ip) of an IPv4Address
Str(ip) == <<ToString(ip[1]), ".", ToString(ip[2]), ".",
             ToString(ip[3]), ".", ToString(ip[4])>>

\* s.replace(old, new)
Replace(s, old, new) == [i \in DOMAIN s |-> IF s[i] = old THEN new ELSE s[i]]

\* s.split(sep)[-1]: what follows the last separator
SplitLast(s, sep) ==
    LET seps == {i \in DOMAIN s : s[i] = sep}
        from == IF seps = {} THEN 1
                ELSE 1 + (CHOOSE i \in seps : \A j \in seps : j <= i)
    IN SubSeq(s, from, Len(s))

\* int(s) of a decimal token sequence; -1 stands for ValueError
ParseInt(s) ==
    IF Len(s) = 1 /\ \E n \in Octets : ToString(n) = s[1]
    THEN CHOOSE n \in Octets : ToString(n) = s[1]
    ELSE -1

----------------------------------------------------------------------------
(* Range expansion: ipaddress.ip_network(network_range, strict=False) *)

\* ValueError unless four octets and a prefix length within 0..32
IsValidRange(r) ==
    /\ \A i \in 1..4 : r.addr[i] \in Octets
    /\ r.prefix \in 0..32

\* number of host bits of octet i under prefix length p
HostBits(p, i) == 8 - Max(0, Min(8, p - 8 * (i - 1)))

\* network address: host bits cleared (strict=False)
NetworkAddress(r) ==
    [i \in 1..4 |-> r.addr[i] - (r.addr[i] % Pow2(HostBits(r.prefix, i)))]

BroadcastAddress(r) ==
    [i \in 1..4 |-> NetworkAddress(r)[i] + Pow2(HostBits(r.prefix, i)) - 1]

AllAddresses(r) ==
    LET lo == NetworkAddress(r)
        hi == BroadcastAddress(r)
    IN {<<a, b, c, d>> : a \in lo[1]..hi[1], b \in lo[2]..hi[2],
                         c \in lo[3]..hi[3], d \in lo[4]..hi[4]}

\* hosts() keeping the network and the broadcast address
NetworkHosts_all(r) == SetToSeq(AllAddresses(r))

\* IPv4Network.hosts(): /31 and /32 keep every address, otherwise the network
\* and broadcast addresses are left out
NetworkHosts(r) ==
    IF r.prefix >= 31 THEN SetToSeq(AllAddresses(r))
    ELSE SetToSeq(AllAddresses(r) \ {NetworkAddress(r), BroadcastAddress(r)})

\* command-line values of args.network the model explores
RangeInputs ==
    { [addr |-> <<192, 168, 1, 9>>,   prefix |-> 30],
      [addr |-> <<192, 168, 1, 10>>,  prefix |-> 31],
      [addr |-> <<10, 0, 0, 30>>,     prefix |-> 31],
      [addr |-> <<10, 0, 0, 40>>,     prefix |-> 31],
      [addr |-> <<10, 0, 0, 50>>,     prefix |-> 31],
      [addr |-> <<10, 0, 0, 60>>,     prefix |-> 31],
      [addr |-> <<10, 0, 0, 70>>,     prefix |-> 31],
      [addr |-> <<203, 0, 113, 0>>,   prefix |-> 30],
      [addr |-> <<192, 168, 1, 200>>, prefix |-> 32],
      [addr |-> <<192, 168, 1, 300>>, prefix |-> 24],
      [addr |-> <<192, 168, 1, 0>>,   prefix |-> 33] }

CandidatesOf(r) == IF IsValidRange(r) THEN Range(NetworkHosts(r)) ELSE {}

----------------------------------------------------------------------------
(* The other scripts before any of their calls *)

MonitorIdle ==
    /\ monitoring = FALSE
    /\ sample_interval = 1
    /\ iterations = 0
    /\ iteration = 0
    /\ timer = 0
    /\ process = "none"
    /\ process_age = 0
    /\ sampler = <<>>
    /\ samples = <<>>
    /\ read_len = <<>>

SyntaxIdle ==
    /\ parallel = FALSE
    /\ playbooks = <<>>
    /\ syntax_reply = <<>>
    /\ synFut = <<>>
    /\ synQueue = <<>>
    /\ syn_results = <<>>

SuiteIdle ==
    /\ all_results = <<>>
    /\ summary = <<>>

VaultIdle ==
    /\ vault_file = <<>>
    /\ vault_log = <<>>

ToolsIdle == MonitorIdle /\ SyntaxIdle /\ SuiteIdle /\ VaultIdle

----------------------------------------------------------------------------
(* Probes *)

NoValue == <<>>

\* what a future holds once its call has ended
Returned(v) == [kind |-> "returned", val |-> v]
Raised      == [kind |-> "raised",   val |-> NoValue]

\* what subprocess.run can end in: exit status 0, another exit status, or
\* TimeoutExpired / any other exception
PingReplies == {"rc_zero", "rc_nonzero", "exception"}

\* ping_host without its try/except
ping_host_unguarded(ip, reply) ==
    IF reply = "exception" THEN Raised
    ELSE IF reply = "rc_zero" THEN Returned(ip)
    ELSE Returned(NoValue)

\* try: run ping, return ip on status 0 else None; except: return None
ping_host(ip, reply) ==
    IF reply = "exception" THEN Returned(NoValue)
    ELSE IF reply = "rc_zero" THEN Returned(ip)
    ELSE Returned(NoValue)

\* what connect_ex can end in: 0, an errno (refused, timed out, reset), or an
\* exception
SshReplies == {"connected", "errno", "exception"}

\* check_ssh_port without the test of connect_ex's result
check_ssh_port_unchecked(ip, reply) ==
    IF reply = "exception" THEN Returned(NoValue) ELSE Returned(ip)

\* try: connect_ex, return ip on result 0 else None; except: return None
check_ssh_port(ip, reply) ==
    IF reply = "exception" THEN Returned(NoValue)
    ELSE IF reply = "connected" THEN Returned(ip)
    ELSE Returned(NoValue)

----------------------------------------------------------------------------
(* Classification *)

\* classify_device_type returning the ios tag for the arista bin
classify_device_type_arista_ios(ip) ==
    LET last_octet == ParseInt(SplitLast(Str(ip), "."))
    IN IF 1 <= last_octet /\ last_octet <= 10 THEN <<"cisco_routers", "ios">>
       ELSE IF 11 <= last_octet /\ last_octet <= 30 THEN <<"cisco_switches", "ios">>
       ELSE IF 31 <= last_octet /\ last_octet <= 40 THEN <<"arista_switches", "ios">>
       ELSE IF 41 <= last_octet /\ last_octet <= 50 THEN <<"juniper_routers", "junos">>
       ELSE IF 51 <= last_octet /\ last_octet <= 60 THEN <<"palo_alto_firewalls", "panos">>
       ELSE IF 61 <= last_octet /\ last_octet <= 70 THEN <<"fortinet_firewalls", "fortios">>
       ELSE <<"unknown_devices", "unknown">>

\* classify_device_type with the upper bounds of the bins exclusive
classify_device_type_exclusive(ip) ==
    LET last_octet == ParseInt(SplitLast(Str(ip), "."))
    IN IF 1 <= last_octet /\ last_octet < 10 THEN <<"cisco_routers", "ios">>
       ELSE IF 11 <= last_octet /\ last_octet < 30 THEN <<"cisco_switches", "ios">>
       ELSE IF 31 <= last_octet /\ last_octet < 40 THEN <<"arista_switches", "eos">>
       ELSE IF 41 <= last_octet /\ last_octet < 50 THEN <<"juniper_routers", "junos">>
       ELSE IF 51 <= last_octet /\ last_octet < 60 THEN <<"palo_alto_firewalls", "panos">>
       ELSE IF 61 <= last_octet /\ last_octet < 70 THEN <<"fortinet_firewalls", "fortios">>
       ELSE <<"unknown_devices", "unknown">>

classify_device_type(ip) ==
    LET last_octet == ParseInt(SplitLast(Str(ip), "."))
    IN IF 1 <= last_octet /\ last_octet <= 10 THEN <<"cisco_routers", "ios">>
       ELSE IF 11 <= last_octet /\ last_octet <= 30 THEN <<"cisco_switches", "ios">>
       ELSE IF 31 <= last_octet /\ last_octet <= 40 THEN <<"arista_switches", "eos">>
       ELSE IF 41 <= last_octet /\ last_octet <= 50 THEN <<"juniper_routers", "junos">>
       ELSE IF 51 <= last_octet /\ last_octet <= 60 THEN <<"palo_alto_firewalls", "panos">>
       ELSE IF 61 <= last_octet /\ last_octet <= 70 THEN <<"fortinet_firewalls", "fortios">>
       ELSE <<"unknown_devices", "unknown">>

----------------------------------------------------------------------------
(* Inventory builder *)

\* the literal the builder starts from
EmptyInventory ==
    [all |-> [children |->
        [cisco_devices |-> [children |->
            [cisco_routers |-> [hosts |-> <<>>],
             cisco_switches |-> [hosts |-> <<>>]]],
         palo_alto_devices |-> [children |->
            [palo_alto_firewalls |-> [hosts |-> <<>>]]],
         fortinet_devices |-> [children |->
            [fortinet_firewalls |-> [hosts |-> <<>>]]],
         juniper_devices |-> [children |->
            [juniper_routers |-> [hosts |-> <<>>]]],
         arista_devices |-> [children |->
            [arista_switches |-> [hosts |-> <<>>]]],
         unknown_devices |-> [hosts |-> <<>>]]]]

\* a hostname built from the last two octets only
Hostname_short(ip) == <<"device-">> \o Replace(SubSeq(Str(ip), 5, 7), ".", "-")

\* hostname = f"device-{str(ip).replace('.', '-')}"
Hostname(ip) == <<"device-">> \o Replace(Str(ip), ".", "-")

\* d.update(u): the keys of u are set in d
Update(d, u) == u @@ d

\* device_config with a literal password in the ios profile
DeviceConfig_literal(ip, os_type) ==
    LET base == [ansible_host |-> Str(ip),
                 device_role  |-> "auto_discovered",
                 site         |-> "discovered"]
    IN IF os_type = "ios" THEN
           Update(base, [ansible_network_os |-> "ios",
                    ansible_connection |-> "network_cli",
                    ansible_user       |-> "{{ vault_cisco_username }}",
                    ansible_password   |-> "cisco123"])
       ELSE IF os_type = "eos" THEN
           Update(base, [ansible_network_os      |-> "eos",
                    ansible_connection      |-> "httpapi",
                    ansible_httpapi_use_ssl |-> TRUE,
                    ansible_httpapi_port    |-> 443,
                    ansible_user            |-> "{{ vault_arista_username }}",
                    ansible_password        |-> "{{ vault_arista_password }}"])
       ELSE IF os_type = "junos" THEN
           Update(base, [ansible_network_os |-> "junos",
                    ansible_connection |-> "netconf",
                    ansible_user       |-> "{{ vault_juniper_username }}",
                    ansible_password   |-> "{{ vault_juniper_password }}"])
       ELSE IF os_type = "panos" THEN
           Update(base, [ansible_connection |-> "local",
                    panos_username     |-> "{{ vault_panos_username }}",
                    panos_password     |-> "{{ vault_panos_password }}",
                    panos_provider     |->
                        [ip_address |-> "{{ ansible_host }}",
                         username   |-> "{{ panos_username }}",
                         password   |-> "{{ panos_password }}"]])
       ELSE IF os_type = "fortios" THEN
           Update(base, [ansible_connection          |-> "httpapi",
                    ansible_httpapi_use_ssl     |-> TRUE,
                    ansible_httpapi_port        |-> 443,
                    ansible_httpapi_session_key |-> "{{ vault_fortigate_api_token }}"])
       ELSE base

\* device_config after the OS-specific update
DeviceConfig(ip, os_type) ==
    LET base == [ansible_host |-> Str(ip),
                 device_role  |-> "auto_discovered",
                 site         |-> "discovered"]
    IN IF os_type = "ios" THEN
           Update(base, [ansible_network_os |-> "ios",
                    ansible_connection |-> "network_cli",
                    ansible_user       |-> "{{ vault_cisco_username }}",
                    ansible_password   |-> "{{ vault_cisco_password }}"])
       ELSE IF os_type = "eos" THEN
           Update(base, [ansible_network_os      |-> "eos",
                    ansible_connection      |-> "httpapi",
                    ansible_httpapi_use_ssl |-> TRUE,
                    ansible_httpapi_port    |-> 443,
                    ansible_user            |-> "{{ vault_arista_username }}",
                    ansible_password        |-> "{{ vault_arista_password }}"])
       ELSE IF os_type = "junos" THEN
           Update(base, [ansible_network_os |-> "junos",
                    ansible_connection |-> "netconf",
                    ansible_user       |-> "{{ vault_juniper_username }}",
                    ansible_password   |-> "{{ vault_juniper_password }}"])
       ELSE IF os_type = "panos" THEN
           Update(base, [ansible_connection |-> "local",
                    panos_username     |-> "{{ vault_panos_username }}",
                    panos_password     |-> "{{ vault_panos_password }}",
                    panos_provider     |->
                        [ip_address |-> "{{ ansible_host }}",
                         username   |-> "{{ panos_username }}",
                         password   |-> "{{ panos_password }}"]])
       ELSE IF os_type = "fortios" THEN
           Update(base, [ansible_connection          |-> "httpapi",
                    ansible_httpapi_use_ssl     |-> TRUE,
                    ansible_httpapi_port        |-> 443,
                    ansible_httpapi_session_key |-> "{{ vault_fortigate_api_token }}"])
       ELSE base

\* d[key] = value on a dict kept in insertion order: an existing key keeps its
\* place and takes the new value, a new key goes to the end
DictSet(d, key, value) ==
    IF \E i \in DOMAIN d : d[i].name = key
    THEN [i \in DOMAIN d |-> IF d[i].name = key
                             THEN [name |-> key, vars |-> value] ELSE d[i]]
    ELSE Append(d, [name |-> key, vars |-> value])

\* the chain with the arista branch storing the host under cisco_switches
PlaceHost_misfiled(inv, device_group, hostname, device_config) ==
    IF device_group \in {"cisco_routers", "cisco_switches"} THEN
        [inv EXCEPT !.all.children.cisco_devices.children[device_group].hosts =
                        DictSet(@, hostname, device_config)]
    ELSE IF device_group = "palo_alto_firewalls" THEN
        [inv EXCEPT !.all.children.palo_alto_devices.children[device_group].hosts =
                        DictSet(@, hostname, device_config)]
    ELSE IF device_group = "fortinet_firewalls" THEN
        [inv EXCEPT !.all.children.fortinet_devices.children[device_group].hosts =
                        DictSet(@, hostname, device_config)]
    ELSE IF device_group = "juniper_routers" THEN
        [inv EXCEPT !.all.children.juniper_devices.children[device_group].hosts =
                        DictSet(@, hostname, device_config)]
    ELSE IF device_group = "arista_switches" THEN
        [inv EXCEPT !.all.children.cisco_devices.children.cisco_switches.hosts =
                        DictSet(@, hostname, device_config)]
    ELSE
        [inv EXCEPT !.all.children.unknown_devices.hosts =
                        DictSet(@, hostname, device_config)]

\* the chain without its else branch: an unclassified host is stored nowhere
PlaceHost_no_else(inv, device_group, hostname, device_config) ==
    IF device_group \in {"cisco_routers", "cisco_switches"} THEN
        [inv EXCEPT !.all.children.cisco_devices.children[device_group].hosts =
                        DictSet(@, hostname, device_config)]
    ELSE IF device_group = "palo_alto_firewalls" THEN
        [inv EXCEPT !.all.children.palo_alto_devices.children[device_group].hosts =
                        DictSet(@, hostname, device_config)]
    ELSE IF device_group = "fortinet_firewalls" THEN
        [inv EXCEPT !.all.children.fortinet_devices.children[device_group].hosts =
                        DictSet(@, hostname, device_config)]
    ELSE IF device_group = "juniper_routers" THEN
        [inv EXCEPT !.all.children.juniper_devices.children[device_group].hosts =
                        DictSet(@, hostname, device_config)]
    ELSE IF device_group = "arista_switches" THEN
        [inv EXCEPT !.all.children.arista_devices.children[device_group].hosts =
                        DictSet(@, hostname, device_config)]
    ELSE inv

\* the if/elif chain that picks the leaf group and stores the host
PlaceHost(inv, device_group, hostname, device_config) ==
    IF device_group \in {"cisco_routers", "cisco_switches"} THEN
        [inv EXCEPT !.all.children.cisco_devices.children[device_group].hosts =
                        DictSet(@, hostname, device_config)]
    ELSE IF device_group = "palo_alto_firewalls" THEN
        [inv EXCEPT !.all.children.palo_alto_devices.children[device_group].hosts =
                        DictSet(@, hostname, device_config)]
    ELSE IF device_group = "fortinet_firewalls" THEN
        [inv EXCEPT !.all.children.fortinet_devices.children[device_group].hosts =
                        DictSet(@, hostname, device_config)]
    ELSE IF device_group = "juniper_routers" THEN
        [inv EXCEPT !.all.children.juniper_devices.children[device_group].hosts =
                        DictSet(@, hostname, device_config)]
    ELSE IF device_group = "arista_switches" THEN
        [inv EXCEPT !.all.children.arista_devices.children[device_group].hosts =
                        DictSet(@, hostname, device_config)]
    ELSE
        [inv EXCEPT !.all.children.unknown_devices.hosts =
                        DictSet(@, hostname, device_config)]

\* an iteration that also derives the site of the record from its host
AddDevice_site_per_host(inv, ip) ==
    LET cls == classify_device_type(ip)
    IN PlaceHost(inv, cls[1], Hostname(ip),
                 Update(DeviceConfig(ip, cls[2]), [site |-> Str(ip)]))

\* one iteration of the loop over discovered_hosts
AddDevice(inv, ip) ==
    LET cls == classify_device_type(ip)
    IN PlaceHost(inv, cls[1], Hostname(ip), DeviceConfig(ip, cls[2]))

\* the loop, from the i-th entry on
RECURSIVE BuildFrom(_, _, _)
BuildFrom(inv, ips, i) ==
    IF i > Len(ips) THEN inv
    ELSE BuildFrom(AddDevice(inv, ips[i]), ips, i + 1)

generate_inventory(ips) == BuildFrom(EmptyInventory, ips, 1)

\* the leaf groups of a tree, by name
LeafNames == {"cisco_routers", "cisco_switches", "palo_alto_firewalls",
              "fortinet_firewalls", "juniper_routers", "arista_switches",
              "unknown_devices"}

LeafHosts(inv, g) ==
    LET top == inv.all.children
    IN IF g \in {"cisco_routers", "cisco_switches"}
            THEN top.cisco_devices.children[g].hosts
       ELSE IF g = "palo_alto_firewalls" THEN top.palo_alto_devices.children[g].hosts
       ELSE IF g = "fortinet_firewalls" THEN top.fortinet_devices.children[g].hosts
       ELSE IF g = "juniper_routers" THEN top.juniper_devices.children[g].hosts
       ELSE IF g = "arista_switches" THEN top.arista_devices.children[g].hosts
       ELSE top.unknown_devices.hosts

----------------------------------------------------------------------------
(* The pipeline run by main() *)

Pending == [kind |-> "pending", val |-> NoValue]

InFlight(fut) == {a \in DOMAIN fut : fut[a] = "running"}

\* the responders that answer positively
PingUp  == {a \in DOMAIN ping_reply : ping_reply[a] = "rc_zero"}
SshOpen == {a \in DOMAIN ssh_reply : ssh_reply[a] = "connected"}

Init ==
    /\ network_range \in RangeInputs
    /\ max_workers \in 0..MaxWorkers
    /\ ping_reply \in [CandidatesOf(network_range) -> PingReplies]
    /\ ssh_reply \in [CandidatesOf(network_range) -> SshReplies]
    /\ pc = "start"
    /\ hosts = <<>>
    /\ pingFut = <<>>
    /\ pingQueue = <<>>
    /\ pingRes = <<>>
    /\ live_hosts = <<>>
    /\ ssh_bound = 0
    /\ sshFut = <<>>
    /\ sshQueue = <<>>
    /\ sshRes = <<>>
    /\ ssh_hosts = <<>>
    /\ discovered_hosts = <<>>
    /\ inventory = <<>>
    /\ build_error = "none"
    /\ output_file = "absent"
    /\ exit_status = -1
    /\ stdout = <<>>
    /\ ip_arg = <<>>
    /\ ret = <<>>
    /\ document = <<>>
    /\ ToolsIdle

\* ip_network raises ValueError: message, return []
ParseRangeError ==
    /\ pc = "start"
    /\ ~IsValidRange(network_range)
    /\ stdout' = Append(stdout, "invalid_range")
    /\ discovered_hosts' = <<>>
    /\ pc' = "main_check"
    /\ UNCHANGED <<envVars, pingVars, sshVars, buildVars, output_file,
                   exit_status, callVars>>

ExpandRange ==
    /\ pc = "start"
    /\ IsValidRange(network_range)
    /\ hosts' = NetworkHosts(network_range)
    /\ pingFut' = [a \in Range(hosts') |-> "new"]
    /\ pingRes' = [a \in Range(hosts') |-> Pending]
    /\ pc' = "ping_pool"
    /\ UNCHANGED <<envVars, pingQueue, live_hosts, sshVars, discovered_hosts,
                   buildVars, output_file, exit_status, stdout, callVars>>

\* ThreadPoolExecutor(max_workers=max_workers)
CreatePingPool ==
    /\ pc = "ping_pool"
    /\ max_workers > 0
    /\ pc' = "ping_submit"
    /\ UNCHANGED <<envVars, pingVars, sshVars, discovered_hosts, buildVars,
                   output_file, exit_status, stdout, callVars>>

\* the constructor raises ValueError, which nothing catches
CreatePingPoolError ==
    /\ pc = "ping_pool"
    /\ max_workers <= 0
    /\ pc' = "crashed"
    /\ exit_status' = 1
    /\ UNCHANGED <<envVars, pingVars, sshVars, discovered_hosts, buildVars,
                   output_file, stdout, callVars>>

\* executor.submit(ping_host, ip) for the next ip of network.hosts()
SubmitPing ==
    /\ pc = "ping_submit"
    /\ \E n \in DOMAIN hosts :
        /\ pingFut[hosts[n]] = "new"
        /\ \A m \in 1..(n - 1) : pingFut[hosts[m]] # "new"
        /\ pingFut' = [pingFut EXCEPT ![hosts[n]] = "queued"]
        /\ pingQueue' = Append(pingQueue, hosts[n])
        /\ pc' = IF n = Len(hosts) THEN "ping_collect" ELSE pc
    /\ UNCHANGED <<envVars, hosts, pingRes, live_hosts, sshVars,
                   discovered_hosts, buildVars, output_file, exit_status,
                   stdout, callVars>>

\* a worker thread of the first pool takes the next work item
StartPing ==
    /\ pingQueue # <<>>
    /\ Cardinality(InFlight(pingFut)) < max_workers
    /\ pingFut' = [pingFut EXCEPT ![Head(pingQueue)] = "running"]
    /\ pingQueue' = Tail(pingQueue)
    /\ UNCHANGED <<envVars, pc, hosts, pingRes, live_hosts, sshVars,
                   discovered_hosts, buildVars, output_file, exit_status,
                   stdout, callVars>>

\* a worker that retries a failed ping once
FinishPing_retry ==
    /\ \E a \in InFlight(pingFut) :
        IF ping_host(a, ping_reply[a]) = Returned(NoValue) /\ pingRes[a] = Pending
        THEN /\ pingFut' = [pingFut EXCEPT ![a] = "queued"]
             /\ pingQueue' = Append(pingQueue, a)
             /\ pingRes' = [pingRes EXCEPT ![a] = Returned(NoValue)]
        ELSE /\ pingRes' = [pingRes EXCEPT ![a] = ping_host(a, ping_reply[a])]
             /\ pingFut' = [pingFut EXCEPT ![a] = "finished"]
             /\ UNCHANGED pingQueue
    /\ UNCHANGED <<envVars, pc, hosts, live_hosts, sshVars,
                   discovered_hosts, buildVars, output_file, exit_status,
                   stdout, callVars>>

\* ping_host(ip) ends in its worker
FinishPing ==
    /\ \E a \in InFlight(pingFut) :
        /\ pingRes' = [pingRes EXCEPT ![a] = ping_host(a, ping_reply[a])]
        /\ pingFut' = [pingFut EXCEPT ![a] = "finished"]
    /\ UNCHANGED <<envVars, pc, hosts, pingQueue, live_hosts, sshVars,
                   discovered_hosts, buildVars, output_file, exit_status,
                   stdout, callVars>>

\* an iteration whose append overwrites what was accumulated before
CollectPing_lossy ==
    /\ pc = "ping_collect"
    /\ \E a \in DOMAIN pingFut :
        /\ pingFut[a] = "finished"
        /\ pingFut' = [pingFut EXCEPT ![a] = "collected"]
        /\ IF pingRes[a].kind = "raised"
           THEN /\ pc' = "crashed"
                /\ exit_status' = 1
                /\ UNCHANGED live_hosts
           ELSE /\ live_hosts' = IF pingRes[a].val # NoValue
                                 THEN <<pingRes[a].val>>
                                 ELSE live_hosts
                /\ UNCHANGED <<pc, exit_status>>
    /\ UNCHANGED <<envVars, hosts, pingQueue, pingRes, sshVars,
                   discovered_hosts, buildVars, output_file, stdout, callVars>>

\* one iteration of "for future in as_completed(ping_futures)"
CollectPing ==
    /\ pc = "ping_collect"
    /\ \E a \in DOMAIN pingFut :
        /\ pingFut[a] = "finished"
        /\ pingFut' = [pingFut EXCEPT ![a] = "collected"]
        /\ IF pingRes[a].kind = "raised"
           THEN /\ pc' = "crashed"
                /\ exit_status' = 1
                /\ UNCHANGED live_hosts
           ELSE /\ live_hosts' = IF pingRes[a].val # NoValue
                                 THEN Append(live_hosts, pingRes[a].val)
                                 ELSE live_hosts
                /\ UNCHANGED <<pc, exit_status>>
    /\ UNCHANGED <<envVars, hosts, pingQueue, pingRes, sshVars,
                   discovered_hosts, buildVars, output_file, stdout, callVars>>

\* leaving the first pass without waiting for the outstanding futures
EndPing_early ==
    /\ pc = "ping_collect"
    /\ stdout' = Append(stdout, "found_responding")
    /\ pc' = "ssh_pool"
    /\ UNCHANGED <<envVars, pingVars, sshVars, discovered_hosts, buildVars,
                   output_file, exit_status, callVars>>

\* as_completed is exhausted, the with block shuts the pool down
EndPing ==
    /\ pc = "ping_collect"
    /\ \A a \in DOMAIN pingFut : pingFut[a] = "collected"
    /\ stdout' = Append(stdout, "found_responding")
    /\ pc' = "ssh_pool"
    /\ UNCHANGED <<envVars, pingVars, sshVars, discovered_hosts, buildVars,
                   output_file, exit_status, callVars>>

\* ThreadPoolExecutor(max_workers=max_workers // 2)
CreateSshPool(bound) ==
    /\ pc = "ssh_pool"
    /\ bound = max_workers \div 2
    /\ bound > 0
    /\ ssh_bound' = bound
    /\ sshFut' = [a \in Range(live_hosts) |-> "new"]
    /\ sshRes' = [a \in Range(live_hosts) |-> Pending]
    /\ pc' = IF live_hosts = <<>> THEN "ssh_collect" ELSE "ssh_submit"
    /\ UNCHANGED <<envVars, pingVars, sshQueue, ssh_hosts, discovered_hosts,
                   buildVars, output_file, exit_status, stdout, callVars>>

\* the constructor raises ValueError, which nothing catches
CreateSshPoolError ==
    /\ pc = "ssh_pool"
    /\ max_workers \div 2 <= 0
    /\ pc' = "crashed"
    /\ exit_status' = 1
    /\ UNCHANGED <<envVars, pingVars, sshVars, discovered_hosts, buildVars,
                   output_file, stdout, callVars>>

\* executor.submit(check_ssh_port, ip) for the next ip of live_hosts
SubmitSsh ==
    /\ pc = "ssh_submit"
    /\ \E n \in DOMAIN live_hosts :
        /\ sshFut[live_hosts[n]] = "new"
        /\ \A m \in 1..(n - 1) : sshFut[live_hosts[m]] # "new"
        /\ sshFut' = [sshFut EXCEPT ![live_hosts[n]] = "queued"]
        /\ sshQueue' = Append(sshQueue, live_hosts[n])
        /\ pc' = IF n = Len(live_hosts) THEN "ssh_collect" ELSE pc
    /\ UNCHANGED <<envVars, pingVars, ssh_bound, sshRes, ssh_hosts,
                   discovered_hosts, buildVars, output_file, exit_status,
                   stdout, callVars>>

\* the second pass running on the bound of the first pool
StartSsh_first_bound ==
    /\ sshQueue # <<>>
    /\ Cardinality(InFlight(sshFut)) < max_workers
    /\ sshFut' = [sshFut EXCEPT ![Head(sshQueue)] = "running"]
    /\ sshQueue' = Tail(sshQueue)
    /\ UNCHANGED <<envVars, pc, pingVars, ssh_bound, sshRes, ssh_hosts,
                   discovered_hosts, buildVars, output_file, exit_status,
                   stdout, callVars>>

\* a worker thread of the second pool takes the next work item
StartSsh ==
    /\ sshQueue # <<>>
    /\ Cardinality(InFlight(sshFut)) < ssh_bound
    /\ sshFut' = [sshFut EXCEPT ![Head(sshQueue)] = "running"]
    /\ sshQueue' = Tail(sshQueue)
    /\ UNCHANGED <<envVars, pc, pingVars, ssh_bound, sshRes, ssh_hosts,
                   discovered_hosts, buildVars, output_file, exit_status,
                   stdout, callVars>>

\* check_ssh_port(ip) ends in its worker
FinishSsh ==
    /\ \E a \in InFlight(sshFut) :
        /\ sshRes' = [sshRes EXCEPT ![a] = check_ssh_port(a, ssh_reply[a])]
        /\ sshFut' = [sshFut EXCEPT ![a] = "finished"]
    /\ UNCHANGED <<envVars, pc, pingVars, ssh_bound, sshQueue, ssh_hosts,
                   discovered_hosts, buildVars, output_file, exit_status,
                   stdout, callVars>>

\* one iteration of "for future in as_completed(ssh_futures)"
CollectSsh ==
    /\ pc = "ssh_collect"
    /\ \E a \in DOMAIN sshFut :
        /\ sshFut[a] = "finished"
        /\ sshFut' = [sshFut EXCEPT ![a] = "collected"]
        /\ IF sshRes[a].kind = "raised"
           THEN /\ pc' = "crashed"
                /\ exit_status' = 1
                /\ UNCHANGED ssh_hosts
           ELSE /\ ssh_hosts' = IF sshRes[a].val # NoValue
                                THEN Append(ssh_hosts, sshRes[a].val)
                                ELSE ssh_hosts
                /\ UNCHANGED <<pc, exit_status>>
    /\ UNCHANGED <<envVars, pingVars, ssh_bound, sshQueue, sshRes,
                   discovered_hosts, buildVars, output_file, stdout, callVars>>

\* the list returned in the order of collection
EndSsh_unsorted ==
    /\ pc = "ssh_collect"
    /\ \A a \in DOMAIN sshFut : sshFut[a] = "collected"
    /\ stdout' = Append(stdout, "found_ssh")
    /\ discovered_hosts' = ssh_hosts
    /\ pc' = "main_check"
    /\ UNCHANGED <<envVars, pingVars, sshVars, buildVars, output_file,
                   exit_status, callVars>>

\* as_completed is exhausted, the pool shuts down, return sorted(ssh_hosts)
EndSsh ==
    /\ pc = "ssh_collect"
    /\ \A a \in DOMAIN sshFut : sshFut[a] = "collected"
    /\ stdout' = Append(stdout, "found_ssh")
    /\ discovered_hosts' = Sorted(ssh_hosts)
    /\ pc' = "main_check"
    /\ UNCHANGED <<envVars, pingVars, sshVars, buildVars, output_file,
                   exit_status, callVars>>

\* main without the early return: an empty list is built and written too
MainNoDevices_builds ==
    /\ pc = "main_check"
    /\ discovered_hosts = <<>>
    /\ inventory' = generate_inventory(discovered_hosts)
    /\ build_error' = "none"
    /\ pc' = "write"
    /\ UNCHANGED <<envVars, pingVars, sshVars, discovered_hosts, output_file,
                   exit_status, stdout, callVars>>

\* main: "if not discovered_hosts": message and return
MainNoDevices ==
    /\ pc = "main_check"
    /\ discovered_hosts = <<>>
    /\ stdout' = Append(stdout, "no_devices")
    /\ exit_status' = 0
    /\ pc' = "done"
    /\ UNCHANGED <<envVars, pingVars, sshVars, discovered_hosts, buildVars,
                   output_file, callVars>>

\* main building the inventory whatever discover_network_devices returned
MainGenerate_unchecked ==
    /\ pc = "main_check"
    /\ inventory' = generate_inventory(discovered_hosts)
    /\ build_error' = "none"
    /\ pc' = "write"
    /\ UNCHANGED <<envVars, pingVars, sshVars, discovered_hosts, output_file,
                   exit_status, stdout, callVars>>

\* main: inventory = generate_inventory(discovered_hosts, args.format)
MainGenerate ==
    /\ pc = "main_check"
    /\ discovered_hosts # <<>>
    /\ inventory' = generate_inventory(discovered_hosts)
    /\ build_error' = "none"
    /\ pc' = "write"
    /\ UNCHANGED <<envVars, pingVars, sshVars, discovered_hosts, output_file,
                   exit_status, stdout, callVars>>

\* main: the file is opened and the dump succeeds
WriteOk ==
    /\ pc = "write"
    /\ output_file' = "written"
    /\ stdout' = Append(stdout, "inventory_created")
    /\ exit_status' = 0
    /\ pc' = "done"
    /\ UNCHANGED <<envVars, pingVars, sshVars, discovered_hosts, buildVars,
                   callVars>>

\* main: open or dump raises, the except clause prints and main returns
WriteError ==
    /\ pc = "write"
    /\ output_file' \in {"absent", "partial"}
    /\ stdout' = Append(stdout, "write_error")
    /\ exit_status' = 0
    /\ pc' = "done"
    /\ UNCHANGED <<envVars, pingVars, sshVars, discovered_hosts, buildVars,
                   callVars>>

Next ==
    \/ ParseRangeError
    \/ ExpandRange
    \/ CreatePingPool
    \/ CreatePingPoolError
    \/ SubmitPing
    \/ StartPing
    \/ FinishPing
    \/ CollectPing
    \/ EndPing
    \/ \E b \in 0..MaxWorkers : CreateSshPool(b)
    \/ CreateSshPoolError
    \/ SubmitSsh
    \/ StartSsh
    \/ FinishSsh
    \/ CollectSsh
    \/ EndSsh
    \/ MainNoDevices
    \/ MainGenerate
    \/ WriteOk
    \/ WriteError

Spec == Init /\ [][Next]_vars

\* the main thread and the worker threads all keep running: a step that can
\* be taken is taken
SpecFair == Spec /\ WF_vars(Next)

----------------------------------------------------------------------------
(* Direct calls of the two module-level functions *)

\* addresses handed to a direct call of generate_inventory
BuildAddrs == { <<10, 0, 0, 5>>, <<10, 0, 0, 15>>, <<10, 0, 1, 5>>,
                <<10, 0, 0, 35>>, <<10, 0, 0, 45>>, <<10, 0, 0, 55>>,
                <<10, 0, 0, 65>>, <<10, 0, 0, 200>> }

BuildInputs == UNION {[1..n -> BuildAddrs] : n \in 0..MaxHosts}

DiscoveryIdle ==
    /\ network_range = [addr |-> <<0, 0, 0, 0>>, prefix |-> 32]
    /\ max_workers = 0
    /\ ping_reply = <<>>
    /\ ssh_reply = <<>>
    /\ hosts = <<>>
    /\ pingFut = <<>>
    /\ pingQueue = <<>>
    /\ pingRes = <<>>
    /\ live_hosts = <<>>
    /\ ssh_bound = 0
    /\ sshFut = <<>>
    /\ sshQueue = <<>>
    /\ sshRes = <<>>
    /\ ssh_hosts = <<>>
    /\ inventory = <<>>
    /\ build_error = "none"
    /\ output_file = "absent"
    /\ exit_status = -1
    /\ stdout = <<>>
    /\ document = <<>>

Idle == DiscoveryIdle /\ ToolsIdle

InitBuild ==
    /\ Idle
    /\ pc = "call_generate"
    /\ discovered_hosts \in BuildInputs
    /\ ip_arg = <<>>
    /\ ret = <<>>

\* generate_inventory(discovered_hosts) called on its own
CallGenerateInventory ==
    /\ pc = "call_generate"
    /\ inventory' = generate_inventory(discovered_hosts)
    /\ build_error' = "none"
    /\ pc' = "returned"
    /\ UNCHANGED <<envVars, pingVars, sshVars, discovered_hosts, output_file,
                   exit_status, stdout, callVars>>

NextBuild == CallGenerateInventory

SpecBuild == InitBuild /\ [][NextBuild]_vars

InitClassify ==
    /\ Idle
    /\ pc = "call_classify"
    /\ discovered_hosts = <<>>
    /\ ip_arg \in {<<a, 0, 2, d>> : a \in {10, 192}, d \in Octets}
    /\ ret = <<>>

\* classify_device_type(ip) called on its own
CallClassify ==
    /\ pc = "call_classify"
    /\ ret' = classify_device_type(ip_arg)
    /\ pc' = "returned"
    /\ UNCHANGED <<envVars, pingVars, sshVars, discovered_hosts, buildVars,
                   output_file, exit_status, stdout, ip_arg, document>>

NextClassify == CallClassify

SpecClassify == InitClassify /\ [][NextClassify]_vars

----------------------------------------------------------------------------
(* generate_complete_inventory.py: the static enterprise inventory.          *)
(* The text it returns is modelled by the groups it spells: each group has   *)
(* the group it is nested in, its hosts in order, and, for a group whose     *)
(* children are a list, the listed references.  Of each host the name, the   *)
(* address, the connection fields and the role are kept; site, floor,        *)
(* bgp_asn and timeout are not.                                              *)

\* {i:03d} and {i:02d}
Pad3(i) == IF i < 10 THEN "00" \o ToString(i)
           ELSE IF i < 100 THEN "0" \o ToString(i) ELSE ToString(i)
Pad2(i) == IF i < 10 THEN "0" \o ToString(i) ELSE ToString(i)

\* an address written as a.b.c.d in the text
Dotted(a, b, c, d) == <<ToString(a), ".", ToString(b), ".", ToString(c), ".",
                        ToString(d)>>

IosHost(name, addr, role) ==
    [name |-> name,
     vars |-> [ansible_host |-> addr,
               ansible_network_os |-> "ios",
               ansible_connection |-> "network_cli",
               ansible_user |-> "{{ vault_cisco_username }}",
               ansible_password |-> "{{ vault_cisco_password }}",
               device_role |-> role]]

EosHost(name, addr, role) ==
    [name |-> name,
     vars |-> [ansible_host |-> addr,
               ansible_network_os |-> "eos",
               ansible_connection |-> "httpapi",
               ansible_httpapi_use_ssl |-> TRUE,
               ansible_httpapi_port |-> 443,
               ansible_user |-> "{{ vault_arista_username }}",
               ansible_password |-> "{{ vault_arista_password }}",
               device_role |-> role]]

JunosHost(name, addr, role) ==
    [name |-> name,
     vars |-> [ansible_host |-> addr,
               ansible_network_os |-> "junos",
               ansible_connection |-> "netconf",
               ansible_user |-> "{{ vault_juniper_username }}",
               ansible_password |-> "{{ vault_juniper_password }}",
               device_role |-> role]]

PanosHost(name, addr, role) ==
    [name |-> name,
     vars |-> [ansible_host |-> addr,
               ansible_connection |-> "local",
               panos_username |-> "{{ vault_panos_username }}",
               panos_password |-> "{{ vault_panos_password }}",
               device_role |-> role,
               panos_provider |-> [ip_address |-> "{{ ansible_host }}",
                                   username |-> "{{ panos_username }}",
                                   password |-> "{{ panos_password }}"]]]

FortiHost(name, addr, role) ==
    [name |-> name,
     vars |-> [ansible_host |-> addr,
               ansible_connection |-> "httpapi",
               ansible_httpapi_use_ssl |-> TRUE,
               ansible_httpapi_port |-> 443,
               ansible_httpapi_session_key |-> "{{ vault_fortigate_api_token }}",
               device_role |-> role]]

DevSwitch(i) ==
    IF i <= 3
    THEN IosHost("sw-dev-" \o Pad3(i), Dotted(10, 255, 1, 10 + i - 1),
                 "development_switch")
    ELSE EosHost("sw-dev-" \o Pad3(i), Dotted(10, 255, 1, 10 + i - 1),
                 "development_switch")

DevRouter(i) ==
    IF i <= 2
    THEN IosHost("rtr-dev-" \o Pad3(i), Dotted(10, 255, 2, 10 + i - 1),
                 "development_router")
    ELSE JunosHost("rtr-dev-" \o Pad3(i), Dotted(10, 255, 2, 10 + i - 1),
                   "development_router")

DevFirewalls ==
    << PanosHost("fw-dev-001", Dotted(10, 255, 3, 10), "development_firewall"),
       FortiHost("fw-dev-002", Dotted(10, 255, 3, 11), "development_firewall") >>

CoreSwitch(i)   == IosHost("sw-core-" \o Pad3(i), Dotted(10, 0, 1, 9 + i), "core_switch")
DistSwitch(i)   == IosHost("sw-dist-" \o Pad2(i), Dotted(10, 0, 2, 9 + i),
                           "distribution_switch")
AccessSwitch(i) == IosHost("sw-access-" \o Pad3(i), Dotted(10, 0, 3, i), "access_switch")
WanRouter(i)    == IosHost("rtr-wan-" \o Pad3(i), Dotted(10, 1, 2, i), "wan_router")
BranchRouter(i) == IosHost("rtr-branch-" \o Pad3(i), Dotted(10, 1, 3, i), "branch_router")
AccessRouter(i) == IosHost("rtr-access-" \o Pad3(i), Dotted(10, 1, 4, i), "access_router")

AristaSwitch(i) ==
    LET device_type == IF i <= 10 THEN "spine" ELSE "leaf"
        base_ip == IF device_type = "spine" THEN 10 ELSE 20
    IN EosHost("sw-" \o device_type \o "-" \o Pad3(i),
               Dotted(10, 2, IF device_type = "spine" THEN 1 ELSE 2, base_ip + i - 1),
               device_type \o "_switch")

JuniperRouter(i) ==
    LET device_type == IF i <= 15 THEN "core" ELSE IF i <= 35 THEN "edge" ELSE "pe"
        base_ip == IF i <= 15 THEN 10 ELSE IF i <= 35 THEN 20 ELSE 45
    IN JunosHost("rtr-" \o device_type \o "-jun-" \o Pad3(i),
                 Dotted(10, 3, IF device_type = "core" THEN 1
                               ELSE IF device_type = "edge" THEN 2 ELSE 3,
                        base_ip + ((i - 1) % 15)),
                 device_type \o "_router")

PaloAltoFirewall(i) ==
    LET device_type == IF i <= 10 THEN "perimeter"
                       ELSE IF i <= 25 THEN "internal" ELSE "dmz"
        base_ip == IF i <= 10 THEN 10 ELSE IF i <= 25 THEN 20 ELSE 35
    IN PanosHost("fw-" \o device_type \o "-" \o Pad3(i),
                 Dotted(10, 4, IF device_type = "perimeter" THEN 1
                               ELSE IF device_type = "internal" THEN 2 ELSE 3,
                        base_ip + ((i - 1) % 10)),
                 device_type \o "_firewall")

FortinetFirewalls ==
    << FortiHost("fw-internal-fort-01", Dotted(10, 0, 1, 60), "internal_firewall") >>

\* a group nested in another group, with its hosts
Group(parent, hostSeq) == [parent |-> parent, hosts |-> hostSeq, refs |-> <<>>]

\* a group whose children are a list of references
RefGroup(refSeq) == [parent |-> "all", hosts |-> <<>>, refs |-> refSeq]

\* the sections of the text that hold hosts; "for i in range(1, n + 1)" gives
\* the hosts 1..n of a section in order
DeviceGroups ==
    [development_devices    |-> Group("all", <<>>),
     development_switches   |-> Group("development_devices", [i \in 1..5 |-> DevSwitch(i)]),
     development_routers    |-> Group("development_devices", [i \in 1..3 |-> DevRouter(i)]),
     development_firewalls  |-> Group("development_devices", DevFirewalls),
     cisco_devices          |-> Group("all", <<>>),
     cisco_switches         |-> Group("cisco_devices", <<>>),
     core_switches          |-> Group("cisco_switches", [i \in 1..10 |-> CoreSwitch(i)]),
     distribution_switches  |-> Group("cisco_switches", [i \in 1..20 |-> DistSwitch(i)]),
     access_switches        |-> Group("cisco_switches", [i \in 1..270 |-> AccessSwitch(i)]),
     cisco_routers          |-> Group("cisco_devices", <<>>),
     wan_routers            |-> Group("cisco_routers", [i \in 1..50 |-> WanRouter(i)]),
     branch_routers         |-> Group("cisco_routers", [i \in 1..75 |-> BranchRouter(i)]),
     access_routers         |-> Group("cisco_routers", [i \in 1..75 |-> AccessRouter(i)]),
     arista_devices         |-> Group("all", <<>>),
     arista_switches        |-> Group("arista_devices", [i \in 1..50 |-> AristaSwitch(i)]),
     juniper_devices        |-> Group("all", <<>>),
     juniper_routers        |-> Group("juniper_devices", [i \in 1..50 |-> JuniperRouter(i)]),
     palo_alto_devices      |-> Group("all", <<>>),
     palo_alto_firewalls    |-> Group("palo_alto_devices", [i \in 1..50 |-> PaloAltoFirewall(i)]),
     fortinet_devices       |-> Group("all", <<>>),
     fortinet_firewalls     |-> Group("fortinet_devices", FortinetFirewalls)]

\* the LOGICAL GROUPINGS section with all_switches listing the cisco routers
LogicalGroupings_swapped ==
    [all_cisco     |-> RefGroup(<< <<"cisco_devices">> >>),
     all_arista    |-> RefGroup(<< <<"arista_devices">> >>),
     all_juniper   |-> RefGroup(<< <<"juniper_devices">> >>),
     all_palo_alto |-> RefGroup(<< <<"palo_alto_devices">> >>),
     all_switches  |-> RefGroup(<< <<"cisco_devices", ":", "cisco_routers">>,
                                   <<"arista_devices", ":", "arista_switches">> >>),
     all_routers   |-> RefGroup(<< <<"cisco_devices", ":", "cisco_routers">>,
                                   <<"juniper_devices", ":", "juniper_routers">> >>),
     all_firewalls |-> RefGroup(<< <<"palo_alto_devices", ":", "palo_alto_firewalls">>,
                                   <<"fortinet_devices", ":", "fortinet_firewalls">> >>),
     production    |-> RefGroup(<< <<"cisco_devices">>, <<"arista_devices">>,
                                   <<"juniper_devices">>, <<"palo_alto_devices">>,
                                   <<"fortinet_devices">> >>),
     development   |-> RefGroup(<< <<"development_devices">> >>)]

\* the LOGICAL GROUPINGS section with all_switches misspelling a reference
LogicalGroupings_misspelt ==
    [all_cisco     |-> RefGroup(<< <<"cisco_devices">> >>),
     all_arista    |-> RefGroup(<< <<"arista_devices">> >>),
     all_juniper   |-> RefGroup(<< <<"juniper_devices">> >>),
     all_palo_alto |-> RefGroup(<< <<"palo_alto_devices">> >>),
     all_switches  |-> RefGroup(<< <<"cisco_devices", ":", "cisco_switch">>,
                                   <<"arista_devices", ":", "arista_switches">> >>),
     all_routers   |-> RefGroup(<< <<"cisco_devices", ":", "cisco_routers">>,
                                   <<"juniper_devices", ":", "juniper_routers">> >>),
     all_firewalls |-> RefGroup(<< <<"palo_alto_devices", ":", "palo_alto_firewalls">>,
                                   <<"fortinet_devices", ":", "fortinet_firewalls">> >>),
     production    |-> RefGroup(<< <<"cisco_devices">>, <<"arista_devices">>,
                                   <<"juniper_devices">>, <<"palo_alto_devices">>,
                                   <<"fortinet_devices">> >>),
     development   |-> RefGroup(<< <<"development_devices">> >>)]

\* the LOGICAL GROUPINGS section: groups whose children are lists of names
LogicalGroupings ==
    [all_cisco     |-> RefGroup(<< <<"cisco_devices">> >>),
     all_arista    |-> RefGroup(<< <<"arista_devices">> >>),
     all_juniper   |-> RefGroup(<< <<"juniper_devices">> >>),
     all_palo_alto |-> RefGroup(<< <<"palo_alto_devices">> >>),
     all_switches  |-> RefGroup(<< <<"cisco_devices", ":", "cisco_switches">>,
                                   <<"arista_devices", ":", "arista_switches">> >>),
     all_routers   |-> RefGroup(<< <<"cisco_devices", ":", "cisco_routers">>,
                                   <<"juniper_devices", ":", "juniper_routers">> >>),
     all_firewalls |-> RefGroup(<< <<"palo_alto_devices", ":", "palo_alto_firewalls">>,
                                   <<"fortinet_devices", ":", "fortinet_firewalls">> >>),
     production    |-> RefGroup(<< <<"cisco_devices">>, <<"arista_devices">>,
                                   <<"juniper_devices">>, <<"palo_alto_devices">>,
                                   <<"fortinet_devices">> >>),
     development   |-> RefGroup(<< <<"development_devices">> >>)]

generate_complete_inventory == DeviceGroups @@ LogicalGroupings

InitComplete ==
    /\ Idle
    /\ pc = "call_complete"
    /\ discovered_hosts = <<>>
    /\ ip_arg = <<>>
    /\ ret = <<>>

\* generate_complete_inventory() called on its own
CallGenerateCompleteInventory ==
    /\ pc = "call_complete"
    /\ document' = generate_complete_inventory
    /\ pc' = "returned"
    /\ UNCHANGED <<envVars, pingVars, sshVars, discovered_hosts, buildVars,
                   output_file, exit_status, stdout, ip_arg, ret>>

\* either builder, called on its own
InitTrees == InitBuild \/ InitComplete

NextTrees == CallGenerateInventory \/ CallGenerateCompleteInventory

SpecTrees == InitTrees /\ [][NextTrees]_vars

----------------------------------------------------------------------------
(* Writing the inventory and reading it back.                              *)
(* main writes with yaml.dump(default_flow_style=False, sort_keys=False)   *)
(* or json.dump(indent=2); the consumers read with yaml.safe_load and      *)
(* json.loads.  A YAML document is kept as its lines (indentation, key     *)
(* text, value text), a JSON document as its tokens; scalars are kept as   *)
(* the characters written.  Of the implicit YAML types, bool, int, float   *)
(* and null are resolved; timestamps, merge and value keys are not, and    *)
(* the grave accent is left out of the indicator characters.               *)

Char(t, i) == SubSeq(t, i, i)

DecimalDigits == {"0", "1", "2", "3", "4", "5", "6", "7", "8", "9"}

AllDigits(t) == Len(t) > 0 /\ \A i \in 1..Len(t) : Char(t, i) \in DecimalDigits

DigitValue(c) == CHOOSE d \in 0..9 : ToString(d) = c

RECURSIVE Number(_)
Number(t) ==
    IF Len(t) = 0 THEN 0
    ELSE 10 * Number(SubSeq(t, 1, Len(t) - 1)) + DigitValue(Char(t, Len(t)))

Contains(t, sub) ==
    \E i \in 1..(Len(t) - Len(sub) + 1) : SubSeq(t, i, i + Len(sub) - 1) = sub

\* the str of a token sequence
RECURSIVE Join(_)
Join(tokens) == IF tokens = <<>> THEN "" ELSE Head(tokens) \o Join(Tail(tokens))

\* every occurrence of the character c written as the text w
RECURSIVE Rewrite(_, _, _)
Rewrite(t, c, w) ==
    IF Len(t) = 0 THEN ""
    ELSE (IF Char(t, 1) = c THEN w ELSE Char(t, 1))
            \o Rewrite(SubSeq(t, 2, Len(t)), c, w)

\* every pair of the escape character e and a following character read as
\* that following character
RECURSIVE Unescape(_, _)
Unescape(t, e) ==
    IF Len(t) = 0 THEN ""
    ELSE IF Char(t, 1) = e /\ Len(t) >= 2
         THEN Char(t, 2) \o Unescape(SubSeq(t, 3, Len(t)), e)
         ELSE Char(t, 1) \o Unescape(SubSeq(t, 2, Len(t)), e)

(* The objects of the tree, with their Python types *)

StrNode(s)     == [kind |-> "str", text |-> s]
BoolNode(b)    == [kind |-> "bool", truth |-> b]
IntNode(n)     == [kind |-> "int", number |-> n]
MapNode(items) == [kind |-> "map", items |-> items]
OtherNode(tag) == [kind |-> tag]
Item(k, v)     == [key |-> k, value |-> v]

\* d[key] = value on the items of a dict under construction
SetItem(items, k, v) ==
    IF \E i \in DOMAIN items : items[i].key = k
    THEN [i \in DOMAIN items |-> IF items[i].key = k THEN Item(k, v) ELSE items[i]]
    ELSE Append(items, Item(k, v))

\* the order in which the keys of the dicts of generate_inventory are inserted
KeyOrder ==
    <<"cisco_devices", "cisco_routers", "cisco_switches",
      "palo_alto_devices", "palo_alto_firewalls",
      "fortinet_devices", "fortinet_firewalls",
      "juniper_devices", "juniper_routers",
      "arista_devices", "arista_switches", "unknown_devices",
      "ansible_host", "device_role", "site", "ansible_network_os",
      "ansible_connection", "ansible_httpapi_use_ssl", "ansible_httpapi_port",
      "ansible_user", "ansible_password", "panos_username", "panos_password",
      "panos_provider", "ansible_httpapi_session_key",
      "ip_address", "username", "password">>

RECURSIVE KeysIn(_, _)
KeysIn(order, dom) ==
    IF order = <<>> THEN <<>>
    ELSE (IF Head(order) \in dom THEN <<Head(order)>> ELSE <<>>)
            \o KeysIn(Tail(order), dom)

\* the object of one field of a host record
NodeOfField(k, v) ==
    IF k = "ansible_httpapi_use_ssl" THEN BoolNode(v)
    ELSE IF k = "ansible_httpapi_port" THEN IntNode(v)
    ELSE IF k = "ansible_host" THEN StrNode(Join(v))
    ELSE IF k = "panos_provider" THEN
        LET ks == KeysIn(KeyOrder, DOMAIN v)
        IN MapNode([i \in DOMAIN ks |-> Item(StrNode(ks[i]), StrNode(v[ks[i]]))])
    ELSE StrNode(v)

NodeOfVars(v) ==
    LET ks == KeysIn(KeyOrder, DOMAIN v)
    IN MapNode([i \in DOMAIN ks |-> Item(StrNode(ks[i]), NodeOfField(ks[i], v[ks[i]]))])

RECURSIVE NodeOfGroup(_)
NodeOfGroup(g) ==
    IF "children" \in DOMAIN g THEN
        LET ks == KeysIn(KeyOrder, DOMAIN g.children)
        IN MapNode(<<Item(StrNode("children"),
                          MapNode([i \in DOMAIN ks |->
                              Item(StrNode(ks[i]), NodeOfGroup(g.children[ks[i]]))]))>>)
    ELSE MapNode(<<Item(StrNode("hosts"),
                        MapNode([i \in DOMAIN g.hosts |->
                            Item(StrNode(Join(g.hosts[i].name)),
                                 NodeOfVars(g.hosts[i].vars))]))>>)

\* the inventory dict as the dumpers see it
NodeOfInventory(inv) == MapNode(<<Item(StrNode("all"), NodeOfGroup(inv.all))>>)

(* YAML *)

YamlTrue  == {"yes", "Yes", "YES", "true", "True", "TRUE", "on", "On", "ON"}
YamlFalse == {"no", "No", "NO", "false", "False", "FALSE", "off", "Off", "OFF"}
YamlNull  == {"~", "null", "Null", "NULL", ""}

IsFloatText(t) ==
    \E i \in 1..Len(t) :
        /\ Char(t, i) = "."
        /\ AllDigits(SubSeq(t, 1, i - 1))
        /\ i = Len(t) \/ AllDigits(SubSeq(t, i + 1, Len(t)))

\* the type a plain scalar resolves to
ImplicitTag(t) ==
    IF t \in YamlTrue \cup YamlFalse THEN "bool"
    ELSE IF t \in YamlNull THEN "null"
    ELSE IF AllDigits(t) THEN "int"
    ELSE IF IsFloatText(t) THEN "float"
    ELSE "str"

StartIndicators == {"#", ",", "[", "]", "{", "}", "&", "*", "!", "|", ">",
                    "'", "\"", "%", "@"}

\* the emitter's analysis: may the text be written without quotes
PlainAllowed(t) ==
    /\ Len(t) > 0
    /\ Char(t, 1) \notin StartIndicators \cup {" "}
    /\ ~(Char(t, 1) \in {"-", "?", ":"} /\ (Len(t) = 1 \/ Char(t, 2) = " "))
    /\ Char(t, Len(t)) \notin {" ", ":"}
    /\ ~Contains(t, ": ")
    /\ ~Contains(t, " #")

\* a scalar always written plain
YamlScalar_plain(node) ==
    IF node.kind = "bool" THEN (IF node.truth THEN "true" ELSE "false")
    ELSE IF node.kind = "int" THEN ToString(node.number)
    ELSE node.text

\* the characters of a scalar: plain where that reads back as the same type,
\* single-quoted otherwise
YamlScalar(node) ==
    IF node.kind = "bool" THEN (IF node.truth THEN "true" ELSE "false")
    ELSE IF node.kind = "int" THEN ToString(node.number)
    ELSE IF PlainAllowed(node.text) /\ ImplicitTag(node.text) = "str"
         THEN node.text
         ELSE "'" \o Rewrite(node.text, "'", "''") \o "'"

Line(indent, key, value) == [indent |-> indent, key |-> key, value |-> value]

\* a block mapping: one line per key, a nested mapping two columns deeper,
\* an empty mapping in flow style
RECURSIVE YamlItems(_, _, _)
YamlItems(items, i, indent) ==
    IF i > Len(items) THEN <<>>
    ELSE LET k == YamlScalar(items[i].key)
             v == items[i].value
         IN (IF v.kind = "map"
             THEN IF v.items = <<>>
                  THEN <<Line(indent, k, "{}")>>
                  ELSE <<Line(indent, k, "")>> \o YamlItems(v.items, 1, indent + 2)
             ELSE <<Line(indent, k, YamlScalar(v))>>)
            \o YamlItems(items, i + 1, indent)

\* the order of the characters that occur in keys
Alphabet == "-0123456789_abcdefghijklmnopqrstuvwxyz"

CharRank(c) == CHOOSE i \in 1..Len(Alphabet) : Char(Alphabet, i) = c

TextLess(a, b) ==
    \/ \E i \in 1..Min(Len(a), Len(b)) :
        /\ SubSeq(a, 1, i - 1) = SubSeq(b, 1, i - 1)
        /\ CharRank(Char(a, i)) < CharRank(Char(b, i))
    \/ Len(a) < Len(b) /\ SubSeq(b, 1, Len(a)) = a

RECURSIVE SortedItems(_)
SortedItems(items) ==
    IF items = <<>> THEN <<>>
    ELSE LET m == CHOOSE k \in DOMAIN items :
                    \A j \in DOMAIN items : ~TextLess(items[j].key.text, items[k].key.text)
             rest == [j \in 1..(Len(items) - 1) |-> IF j < m THEN items[j] ELSE items[j + 1]]
         IN <<items[m]>> \o SortedItems(rest)

RECURSIVE SortedNode(_)
SortedNode(node) ==
    IF node.kind # "map" THEN node
    ELSE MapNode(SortedItems([i \in DOMAIN node.items |->
                    Item(node.items[i].key, SortedNode(node.items[i].value))]))

\* yaml.dump with its default sort_keys=True
yaml_dump_sort_keys(inv) == YamlItems(SortedNode(NodeOfInventory(inv)).items, 1, 0)

\* yaml.dump(inventory, f, default_flow_style=False, sort_keys=False)
yaml_dump(inv) == YamlItems(NodeOfInventory(inv).items, 1, 0)

\* the object a scalar is constructed as
YamlConstruct(t) ==
    IF Len(t) >= 2 /\ Char(t, 1) = "'"
        THEN StrNode(Unescape(SubSeq(t, 2, Len(t) - 1), "'"))
    ELSE IF Len(t) > 0 /\ Char(t, 1) \in StartIndicators
        THEN OtherNode("not_a_scalar")
    ELSE IF ImplicitTag(t) = "bool" THEN BoolNode(t \in YamlTrue)
    ELSE IF ImplicitTag(t) = "int" THEN IntNode(Number(t))
    ELSE IF ImplicitTag(t) = "str" THEN StrNode(t)
    ELSE OtherNode(ImplicitTag(t))

\* the block mapping starting at line i at the given indentation
RECURSIVE YamlBlock(_, _, _, _)
YamlBlock(lines, i, indent, acc) ==
    IF i > Len(lines) \/ lines[i].indent < indent
    THEN [node |-> MapNode(acc), next |-> i]
    ELSE LET l == lines[i]
             k == YamlConstruct(l.key)
         IN IF l.value = "{}"
                THEN YamlBlock(lines, i + 1, indent, SetItem(acc, k, MapNode(<<>>)))
            ELSE IF l.value # ""
                THEN YamlBlock(lines, i + 1, indent, SetItem(acc, k, YamlConstruct(l.value)))
            ELSE IF i < Len(lines) /\ lines[i + 1].indent > indent
                THEN LET sub == YamlBlock(lines, i + 1, lines[i + 1].indent, <<>>)
                     IN YamlBlock(lines, sub.next, indent, SetItem(acc, k, sub.node))
            ELSE YamlBlock(lines, i + 1, indent, SetItem(acc, k, OtherNode("null")))

\* yaml.safe_load(f)
yaml_safe_load(lines) == YamlBlock(lines, 1, 0, <<>>).node

(* JSON *)

\* a string written without its quotation marks
JsonScalar_bare(node) ==
    IF node.kind = "bool" THEN (IF node.truth THEN "true" ELSE "false")
    ELSE IF node.kind = "int" THEN ToString(node.number)
    ELSE node.text

\* the characters of a scalar: strings between quotation marks, with the
\* quotation mark and the backslash escaped
JsonScalar(node) ==
    IF node.kind = "bool" THEN (IF node.truth THEN "true" ELSE "false")
    ELSE IF node.kind = "int" THEN ToString(node.number)
    ELSE "\"" \o Rewrite(Rewrite(node.text, "\\", "\\\\"), "\"", "\\\"") \o "\""

RECURSIVE JsonTokens(_), JsonMembers(_, _)
JsonTokens(node) ==
    IF node.kind = "map"
    THEN <<"{">> \o JsonMembers(node.items, 1) \o <<"}">>
    ELSE <<JsonScalar(node)>>

JsonMembers(items, i) ==
    IF i > Len(items) THEN <<>>
    ELSE (IF i > 1 THEN <<",">> ELSE <<>>)
            \o <<JsonScalar(items[i].key), ":">>
            \o JsonTokens(items[i].value)
            \o JsonMembers(items, i + 1)

\* json.dump(inventory, f, indent=2)
json_dump(inv) == JsonTokens(NodeOfInventory(inv))

JsonConstruct(t) ==
    IF Len(t) >= 2 /\ Char(t, 1) = "\"" /\ Char(t, Len(t)) = "\""
        THEN StrNode(Unescape(SubSeq(t, 2, Len(t) - 1), "\\"))
    ELSE IF t = "true" THEN BoolNode(TRUE)
    ELSE IF t = "false" THEN BoolNode(FALSE)
    ELSE IF AllDigits(t) THEN IntNode(Number(t))
    ELSE OtherNode("invalid")

RECURSIVE JsonValue(_, _), JsonObject(_, _, _)
JsonValue(tokens, i) ==
    IF tokens[i] = "{"
    THEN IF tokens[i + 1] = "}"
         THEN [node |-> MapNode(<<>>), next |-> i + 2]
         ELSE JsonObject(tokens, i + 1, <<>>)
    ELSE [node |-> JsonConstruct(tokens[i]), next |-> i + 1]

JsonObject(tokens, i, acc) ==
    LET k    == JsonConstruct(tokens[i])
        v    == JsonValue(tokens, i + 2)
        acc2 == SetItem(acc, k, v.node)
    IN IF tokens[v.next] = ","
       THEN JsonObject(tokens, v.next + 1, acc2)
       ELSE [node |-> MapNode(acc2), next |-> v.next + 1]

\* json.loads(text)
json_loads(tokens) == JsonValue(tokens, 1).node

(* Direct calls: build, write in one encoding, read it back *)

\* if args.format == 'yaml': yaml.dump(...)
DumpYaml ==
    /\ pc = "returned"
    /\ document' = [format |-> "yaml", body |-> yaml_dump(inventory)]
    /\ pc' = "dumped"
    /\ UNCHANGED <<envVars, pingVars, sshVars, discovered_hosts, buildVars,
                   output_file, exit_status, stdout, ip_arg, ret>>

\* else: json.dump(...)
DumpJson ==
    /\ pc = "returned"
    /\ document' = [format |-> "json", body |-> json_dump(inventory)]
    /\ pc' = "dumped"
    /\ UNCHANGED <<envVars, pingVars, sshVars, discovered_hosts, buildVars,
                   output_file, exit_status, stdout, ip_arg, ret>>

LoadYaml ==
    /\ pc = "dumped"
    /\ document.format = "yaml"
    /\ ret' = yaml_safe_load(document.body)
    /\ pc' = "loaded"
    /\ UNCHANGED <<envVars, pingVars, sshVars, discovered_hosts, buildVars,
                   output_file, exit_status, stdout, ip_arg, document>>

LoadJson ==
    /\ pc = "dumped"
    /\ document.format = "json"
    /\ ret' = json_loads(document.body)
    /\ pc' = "loaded"
    /\ UNCHANGED <<envVars, pingVars, sshVars, discovered_hosts, buildVars,
                   output_file, exit_status, stdout, ip_arg, document>>

NextRoundTrip ==
    \/ CallGenerateInventory
    \/ DumpYaml
    \/ DumpJson
    \/ LoadYaml
    \/ LoadJson

SpecRoundTrip == InitBuild /\ [][NextRoundTrip]_vars

----------------------------------------------------------------------------
(* performance_monitor.py: run_performance_test calling                    *)
(* monitor_playbook_execution once per iteration.  Time is counted in      *)
(* seconds; a step that does not wait takes no time, and when a sleep and  *)
(* the join end in the same second the sleeper goes first.                 *)

JoinTimeout == 1     \* monitor_thread.join(timeout=1)
PauseTime   == 2     \* time.sleep(2) between iterations

Runs == 1..MaxIterations

SamplerAlive(c) == sampler[c].at \notin {"not_started", "ended"}

InitMonitor ==
    /\ DiscoveryIdle
    /\ discovered_hosts = <<>>
    /\ ip_arg = <<>>
    /\ ret = <<>>
    /\ pc = "mon_call"
    /\ monitoring = FALSE
    /\ sample_interval \in 1..MaxInterval
    /\ iterations \in 1..MaxIterations
    /\ iteration = 1
    /\ timer = 0
    /\ process = "none"
    /\ process_age = 0
    /\ sampler = [c \in Runs |-> [at |-> "not_started", left |-> 0]]
    /\ samples = [c \in Runs |-> 0]
    /\ read_len = [c \in Runs |-> -1]
    /\ SyntaxIdle
    /\ SuiteIdle
    /\ VaultIdle

\* cpu_samples = [], memory_samples = [], subprocess.Popen(command)
Popen ==
    /\ pc = "mon_call"
    /\ process' = "running"
    /\ process_age' = 0
    /\ pc' = "mon_start"
    /\ UNCHANGED <<discoveryVars, synVars, suiteVars, vaultVars, exit_status, ret, monitoring, sample_interval,
                   iterations, iteration, timer, sampler, samples, read_len>>

\* self.monitoring = True, monitor_thread.start()
StartSampler ==
    /\ pc = "mon_start"
    /\ monitoring' = TRUE
    /\ sampler' = [sampler EXCEPT ![iteration] = [at |-> "test", left |-> 0]]
    /\ pc' = "mon_communicate"
    /\ UNCHANGED <<discoveryVars, synVars, suiteVars, vaultVars, exit_status, ret, sample_interval, iterations,
                   iteration, timer, process, process_age, samples, read_len>>

\* the monitored command ends
ProcessExits ==
    /\ process = "running"
    /\ process' = "ended"
    /\ UNCHANGED <<discoveryVars, synVars, suiteVars, vaultVars, pc, exit_status, ret, monitoring,
                   sample_interval, iterations, iteration, timer, process_age,
                   sampler, samples, read_len>>

\* process.communicate() returns
CommunicateReturns ==
    /\ pc = "mon_communicate"
    /\ process = "ended"
    /\ pc' = "mon_stop"
    /\ UNCHANGED <<discoveryVars, synVars, suiteVars, vaultVars, exit_status, ret, monVars>>

\* self.monitoring = False, then the join begins
StopMonitoring ==
    /\ pc = "mon_stop"
    /\ monitoring' = FALSE
    /\ timer' = JoinTimeout
    /\ pc' = "mon_join"
    /\ UNCHANGED <<discoveryVars, synVars, suiteVars, vaultVars, exit_status, ret, sample_interval, iterations,
                   iteration, process, process_age, sampler, samples, read_len>>

\* monitor_thread.join(timeout=1) returns: the thread has ended, or the
\* second is over
JoinReturns ==
    /\ pc = "mon_join"
    /\ \/ sampler[iteration].at = "ended"
       \/ /\ timer = 0
          /\ sampler[iteration].at = "sleep"
          /\ sampler[iteration].left > 0
    /\ pc' = "mon_metrics"
    /\ UNCHANGED <<discoveryVars, synVars, suiteVars, vaultVars, exit_status, ret, monVars>>

\* the sample lists are read into PerformanceMetrics, the call returns
ComputeMetrics ==
    /\ pc = "mon_metrics"
    /\ read_len' = [read_len EXCEPT ![iteration] = samples[iteration]]
    /\ pc' = "mon_return"
    /\ UNCHANGED <<discoveryVars, synVars, suiteVars, vaultVars, exit_status, ret, monitoring, sample_interval,
                   iterations, iteration, timer, process, process_age, sampler,
                   samples>>

\* results.append(metrics); if i < iterations - 1: time.sleep(2)
EndIteration ==
    /\ pc = "mon_return"
    /\ IF iteration < iterations
       THEN /\ timer' = PauseTime
            /\ pc' = "mon_pause"
       ELSE /\ pc' = "mon_done"
            /\ UNCHANGED timer
    /\ UNCHANGED <<discoveryVars, synVars, suiteVars, vaultVars, exit_status, ret, monitoring, sample_interval,
                   iterations, iteration, process, process_age, sampler,
                   samples, read_len>>

\* the pause is over: next iteration
PauseEnds ==
    /\ pc = "mon_pause"
    /\ timer = 0
    /\ iteration' = iteration + 1
    /\ pc' = "mon_call"
    /\ UNCHANGED <<discoveryVars, synVars, suiteVars, vaultVars, exit_status, ret, monitoring, sample_interval,
                   iterations, timer, process, process_age, sampler, samples,
                   read_len>>

\* collect_metrics: while self.monitoring
SamplerTest(c) ==
    /\ sampler[c].at = "test"
    /\ sampler' = [sampler EXCEPT ![c].at = IF monitoring THEN "sample" ELSE "ended"]
    /\ UNCHANGED <<discoveryVars, synVars, suiteVars, vaultVars, pc, exit_status, ret, monitoring,
                   sample_interval, iterations, iteration, timer, process,
                   process_age, samples, read_len>>

\* cpu_samples.append, memory_samples.append, then time.sleep(sample_interval)
SamplerAppend(c) ==
    /\ sampler[c].at = "sample"
    /\ samples' = [samples EXCEPT ![c] = @ + 1]
    /\ sampler' = [sampler EXCEPT ![c] = [at |-> "sleep", left |-> sample_interval]]
    /\ UNCHANGED <<discoveryVars, synVars, suiteVars, vaultVars, pc, exit_status, ret, monitoring,
                   sample_interval, iterations, iteration, timer, process,
                   process_age, read_len>>

\* psutil raises: except: break
SamplerFails(c) ==
    /\ sampler[c].at = "sample"
    /\ sampler' = [sampler EXCEPT ![c].at = "ended"]
    /\ UNCHANGED <<discoveryVars, synVars, suiteVars, vaultVars, pc, exit_status, ret, monitoring,
                   sample_interval, iterations, iteration, timer, process,
                   process_age, samples, read_len>>

\* the sleep of a sampler is over
SamplerWakes(c) ==
    /\ sampler[c].at = "sleep"
    /\ sampler[c].left = 0
    /\ sampler' = [sampler EXCEPT ![c].at = "test"]
    /\ UNCHANGED <<discoveryVars, synVars, suiteVars, vaultVars, pc, exit_status, ret, monitoring,
                   sample_interval, iterations, iteration, timer, process,
                   process_age, samples, read_len>>

MainWaits ==
    \/ pc = "mon_communicate" /\ process = "running"
    \/ pc = "mon_join" /\ timer > 0 /\ sampler[iteration].at # "ended"
    \/ pc = "mon_pause" /\ timer > 0
    \/ pc = "mon_done"

SamplerWaits(c) ==
    \/ ~SamplerAlive(c)
    \/ sampler[c].at = "sleep" /\ sampler[c].left > 0

\* a second passes while every thread waits
Tick ==
    /\ MainWaits
    /\ \A c \in Runs : SamplerWaits(c)
    /\ process = "running" => process_age < MaxRun
    /\ \/ process = "running"
       \/ pc \in {"mon_join", "mon_pause"}
       \/ \E c \in Runs : SamplerAlive(c)
    /\ timer' = IF pc \in {"mon_join", "mon_pause"} THEN timer - 1 ELSE timer
    /\ process_age' = IF process = "running" THEN process_age + 1 ELSE process_age
    /\ sampler' = [c \in Runs |->
                    IF sampler[c].at = "sleep"
                    THEN [sampler[c] EXCEPT !.left = @ - 1] ELSE sampler[c]]
    /\ UNCHANGED <<discoveryVars, synVars, suiteVars, vaultVars, pc, exit_status, ret, monitoring,
                   sample_interval, iterations, iteration, process, samples,
                   read_len>>

NextMonitor ==
    \/ Popen
    \/ StartSampler
    \/ ProcessExits
    \/ CommunicateReturns
    \/ StopMonitoring
    \/ JoinReturns
    \/ ComputeMetrics
    \/ EndIteration
    \/ PauseEnds
    \/ \E c \in Runs : SamplerTest(c)
    \/ \E c \in Runs : SamplerAppend(c)
    \/ \E c \in Runs : SamplerFails(c)
    \/ \E c \in Runs : SamplerWakes(c)
    \/ Tick

SpecMonitor == InitMonitor /\ [][NextMonitor]_vars

----------------------------------------------------------------------------
(* ansible_tester.py: _run_syntax_tests *)

SyntaxWorkers == 4   \* ThreadPoolExecutor(max_workers=4)

SyntaxReplies == <<"rc_zero", "rc_nonzero", "exception", "missing">>

Result(playbook, status) == [playbook |-> playbook, status |-> status]

\* syntax_check_playbook(playbook_name)
syntax_check_playbook(playbook, reply) ==
    IF reply = "missing" THEN Result(playbook, "FAIL")
    ELSE IF reply = "rc_zero" THEN Result(playbook, "PASS")
    ELSE IF reply = "rc_nonzero" THEN Result(playbook, "FAIL")
    ELSE Result(playbook, "ERROR")

\* what the checks of n playbooks end in: every combination for up to two
\* playbooks, four rotations of the replies for more
ReplyInputs(n) ==
    IF n <= 2 THEN [1..n -> Range(SyntaxReplies)]
    ELSE {[i \in 1..n |-> SyntaxReplies[1 + ((i + k) % 4)]] : k \in 0..3}

InitSyntax ==
    /\ DiscoveryIdle
    /\ MonitorIdle
    /\ SuiteIdle
    /\ VaultIdle
    /\ discovered_hosts = <<>>
    /\ ip_arg = <<>>
    /\ ret = <<>>
    /\ exit_status = -1
    /\ pc = "syn_call"
    /\ parallel \in BOOLEAN
    /\ \E n \in 0..MaxPlaybooks :
        /\ playbooks = [i \in 1..n |-> i]
        /\ syntax_reply \in ReplyInputs(n)
    /\ synFut = <<>>
    /\ synQueue = <<>>
    /\ syn_results = <<>>

\* if not playbooks: return the one SKIP result
SyntaxNoPlaybooks ==
    /\ pc = "syn_call"
    /\ playbooks = <<>>
    /\ ret' = <<Result("N/A", "SKIP")>>
    /\ pc' = "syn_returned"
    /\ UNCHANGED <<discoveryVars, monVars, suiteVars, vaultVars, synVars, exit_status>>

\* if parallel and len(playbooks) > 1: the executor is created
SyntaxParallel ==
    /\ pc = "syn_call"
    /\ parallel /\ Len(playbooks) > 1
    /\ synFut' = [p \in Range(playbooks) |-> "new"]
    /\ pc' = "syn_submit"
    /\ UNCHANGED <<discoveryVars, monVars, suiteVars, vaultVars, exit_status, ret, parallel, playbooks,
                   syntax_reply, synQueue, syn_results>>

\* else: the loop over the playbooks begins
SyntaxSequential ==
    /\ pc = "syn_call"
    /\ playbooks # <<>>
    /\ ~(parallel /\ Len(playbooks) > 1)
    /\ pc' = "syn_loop"
    /\ UNCHANGED <<discoveryVars, monVars, suiteVars, vaultVars, synVars, exit_status, ret>>

\* one iteration of the sequential loop
SyntaxStep ==
    /\ pc = "syn_loop"
    /\ Len(syn_results) < Len(playbooks)
    /\ LET pb == playbooks[Len(syn_results) + 1]
       IN syn_results' = Append(syn_results,
                                syntax_check_playbook(pb, syntax_reply[pb]))
    /\ UNCHANGED <<discoveryVars, monVars, suiteVars, vaultVars, exit_status, ret, pc, parallel,
                   playbooks, syntax_reply, synFut, synQueue>>

\* executor.submit(self.syntax_check_playbook, pb.name) for the next playbook
SubmitSyntax ==
    /\ pc = "syn_submit"
    /\ \E n \in DOMAIN playbooks :
        /\ synFut[playbooks[n]] = "new"
        /\ \A m \in 1..(n - 1) : synFut[playbooks[m]] # "new"
        /\ synFut' = [synFut EXCEPT ![playbooks[n]] = "queued"]
        /\ synQueue' = Append(synQueue, playbooks[n])
        /\ pc' = IF n = Len(playbooks) THEN "syn_collect" ELSE pc
    /\ UNCHANGED <<discoveryVars, monVars, suiteVars, vaultVars, exit_status, ret, parallel, playbooks,
                   syntax_reply, syn_results>>

\* a pool that starts every submitted check at once
StartSyntax_unbounded ==
    /\ synQueue # <<>>
    /\ synFut' = [synFut EXCEPT ![Head(synQueue)] = "running"]
    /\ synQueue' = Tail(synQueue)
    /\ UNCHANGED <<discoveryVars, monVars, suiteVars, vaultVars, exit_status, ret, pc, parallel,
                   playbooks, syntax_reply, syn_results>>

\* a worker thread takes the next work item
StartSyntax ==
    /\ synQueue # <<>>
    /\ Cardinality(InFlight(synFut)) < SyntaxWorkers
    /\ synFut' = [synFut EXCEPT ![Head(synQueue)] = "running"]
    /\ synQueue' = Tail(synQueue)
    /\ UNCHANGED <<discoveryVars, monVars, suiteVars, vaultVars, exit_status, ret, pc, parallel,
                   playbooks, syntax_reply, syn_results>>

\* syntax_check_playbook ends in its worker
FinishSyntax ==
    /\ \E pb \in InFlight(synFut) :
        synFut' = [synFut EXCEPT ![pb] = "finished"]
    /\ UNCHANGED <<discoveryVars, monVars, suiteVars, vaultVars, exit_status, ret, pc, parallel,
                   playbooks, syntax_reply, synQueue, syn_results>>

\* one iteration of "for future in as_completed(future_to_playbook)"
CollectSyntax ==
    /\ pc = "syn_collect"
    /\ \E pb \in DOMAIN synFut :
        /\ synFut[pb] = "finished"
        /\ synFut' = [synFut EXCEPT ![pb] = "collected"]
        /\ syn_results' = Append(syn_results,
                                 syntax_check_playbook(pb, syntax_reply[pb]))
    /\ UNCHANGED <<discoveryVars, monVars, suiteVars, vaultVars, exit_status, ret, pc, parallel,
                   playbooks, syntax_reply, synQueue>>

\* return results
SyntaxReturn ==
    /\ \/ pc = "syn_loop" /\ Len(syn_results) = Len(playbooks)
       \/ pc = "syn_collect" /\ \A pb \in DOMAIN synFut : synFut[pb] = "collected"
    /\ ret' = syn_results
    /\ pc' = "syn_returned"
    /\ UNCHANGED <<discoveryVars, monVars, suiteVars, vaultVars, synVars, exit_status>>

NextSyntax ==
    \/ SyntaxNoPlaybooks
    \/ SyntaxParallel
    \/ SyntaxSequential
    \/ SyntaxStep
    \/ SubmitSyntax
    \/ StartSyntax
    \/ FinishSyntax
    \/ CollectSyntax
    \/ SyntaxReturn

SpecSyntax == InitSyntax /\ [][NextSyntax]_vars

----------------------------------------------------------------------------
(* ansible_tester.py: the summary of run_test_suite and the exit status of  *)
(* the suite command.  The results of the tests are an input; of each only  *)
(* the status is kept.  success_rate is kept as the fraction num/den of     *)
(* passed_tests / total_tests * 100.                                        *)

Statuses == <<"PASS", "FAIL", "ERROR", "WARN", "SKIP", "TIMEOUT">>

\* n results of status k
Repeat(k, n) == [i \in 1..n |-> k]

\* the result lists explored: every number of results of every status, the
\* results of one status next to each other
ResultInputs ==
    {Repeat("PASS", c[1]) \o Repeat("FAIL", c[2]) \o Repeat("ERROR", c[3])
        \o Repeat("WARN", c[4]) \o Repeat("SKIP", c[5]) \o Repeat("TIMEOUT", c[6]) :
     c \in {d \in [1..6 -> 0..MaxResults] :
                d[1] + d[2] + d[3] + d[4] + d[5] + d[6] <= MaxResults}}

\* len([r for r in all_results if r["status"] == status])
CountStatus(results, status) ==
    Cardinality({i \in DOMAIN results : results[i] = status})

InitSuite ==
    /\ DiscoveryIdle
    /\ MonitorIdle
    /\ SyntaxIdle
    /\ VaultIdle
    /\ discovered_hosts = <<>>
    /\ ip_arg = <<>>
    /\ ret = <<>>
    /\ exit_status = -1
    /\ pc = "suite_call"
    /\ all_results \in ResultInputs
    /\ summary = <<>>

\* run_test_suite: "Calculate summary"
RunTestSuite ==
    /\ pc = "suite_call"
    /\ LET total_tests  == Len(all_results)
           passed_tests == CountStatus(all_results, "PASS")
       IN summary' =
            [total        |-> total_tests,
             passed       |-> passed_tests,
             failed       |-> CountStatus(all_results, "FAIL"),
             errors       |-> CountStatus(all_results, "ERROR"),
             warnings     |-> CountStatus(all_results, "WARN"),
             success_rate |-> IF total_tests > 0
                              THEN [num |-> passed_tests * 100, den |-> total_tests]
                              ELSE [num |-> 0, den |-> 1]]
    /\ pc' = "suite_exit"
    /\ UNCHANGED <<discoveryVars, monVars, synVars, vaultVars, exit_status, ret,
                   all_results>>

\* an exit status of 1 for any failure or error
SuiteExit_any_failure ==
    /\ pc = "suite_exit"
    /\ exit_status' = IF summary.failed > 0 \/ summary.errors > 0 THEN 1 ELSE 0
    /\ pc' = "exited"
    /\ UNCHANGED <<discoveryVars, monVars, synVars, vaultVars, suiteVars, ret>>

\* main: "Exit with appropriate code"
SuiteExit ==
    /\ pc = "suite_exit"
    /\ exit_status' =
        IF summary.success_rate.num >= 90 * summary.success_rate.den THEN 0
        ELSE IF summary.failed > 0 \/ summary.errors > 0 THEN 1
        ELSE 0
    /\ pc' = "exited"
    /\ UNCHANGED <<discoveryVars, monVars, synVars, vaultVars, suiteVars, ret>>

NextSuite == RunTestSuite \/ SuiteExit

SpecSuite == InitSuite /\ [][NextSuite]_vars

----------------------------------------------------------------------------
(* vault_manager.py: encrypt_file and decrypt_file on one file.  The file   *)
(* is missing or present, can be read or not, and is wrapped in depth       *)
(* layers of vault encryption.  ansible-vault is part of the surroundings:  *)
(* it ends in one of three ways and can only succeed on a file it can read. *)

VaultReplies == {"rc_zero", "rc_nonzero", "exception"}

FileInputs ==
    {[exists |-> FALSE, readable |-> FALSE, depth |-> 0]}
    \cup {[exists |-> TRUE, readable |-> r, depth |-> d] : r \in BOOLEAN, d \in 0..1}

\* is_encrypted(file_path): the first line starts with the vault header;
\* False when the file cannot be opened or read
is_encrypted(f) == f.readable /\ f.depth > 0

Call(op, before, invoked, result, after) ==
    [op |-> op, before |-> before, invoked |-> invoked, result |-> result,
     after |-> after]

InitVault ==
    /\ DiscoveryIdle
    /\ MonitorIdle
    /\ SyntaxIdle
    /\ SuiteIdle
    /\ discovered_hosts = <<>>
    /\ ip_arg = <<>>
    /\ ret = <<>>
    /\ exit_status = -1
    /\ pc = "vault"
    /\ vault_file \in FileInputs
    /\ vault_log = <<>>

\* what a call of encrypt_file(file_path) does when ansible-vault would end
\* in reply: <<ansible-vault invoked, value returned, file afterwards>>
encrypt_file_unchecked(f, reply) ==
    IF ~f.exists THEN <<FALSE, FALSE, f>>
    ELSE IF reply = "rc_zero" THEN <<TRUE, TRUE, [f EXCEPT !.depth = @ + 1]>>
    ELSE <<TRUE, FALSE, f>>

encrypt_file(f, reply) ==
    IF ~f.exists THEN <<FALSE, FALSE, f>>
    ELSE IF is_encrypted(f) THEN <<FALSE, TRUE, f>>
    ELSE IF reply = "rc_zero" THEN <<TRUE, TRUE, [f EXCEPT !.depth = @ + 1]>>
    ELSE <<TRUE, FALSE, f>>

\* the same for decrypt_file(file_path, output_file=...): with an output
\* file the decrypted text goes there and the file stays as it is
decrypt_file(f, to_output, reply) ==
    IF ~f.exists THEN <<FALSE, FALSE, f>>
    ELSE IF ~is_encrypted(f) THEN <<FALSE, TRUE, f>>
    ELSE IF reply = "rc_zero"
         THEN <<TRUE, TRUE, IF to_output THEN f ELSE [f EXCEPT !.depth = @ - 1]>>
    ELSE <<TRUE, FALSE, f>>

\* ansible-vault cannot end well on a file it cannot read
CanReply(f, reply) == reply = "rc_zero" => f.readable

EncryptFile ==
    /\ pc = "vault"
    /\ Len(vault_log) < MaxCalls
    /\ \E reply \in VaultReplies :
        /\ CanReply(vault_file, reply)
        /\ LET out == encrypt_file(vault_file, reply)
           IN /\ vault_file' = out[3]
              /\ vault_log' = Append(vault_log,
                                Call("encrypt", vault_file, out[1], out[2], out[3]))
    /\ UNCHANGED <<discoveryVars, monVars, synVars, suiteVars, pc, exit_status, ret>>

DecryptFile ==
    /\ pc = "vault"
    /\ Len(vault_log) < MaxCalls
    /\ \E reply \in VaultReplies, to_output \in BOOLEAN :
        /\ CanReply(vault_file, reply)
        /\ LET out == decrypt_file(vault_file, to_output, reply)
           IN /\ vault_file' = out[3]
              /\ vault_log' = Append(vault_log,
                                Call("decrypt", vault_file, out[1], out[2], out[3]))
    /\ UNCHANGED <<discoveryVars, monVars, synVars, suiteVars, pc, exit_status, ret>>

NextVault == EncryptFile \/ DecryptFile

SpecVault == InitVault /\ [][NextVault]_vars

----------------------------------------------------------------------------
(* Properties *)

\* the names of the leaf groups of the built tree that hold a host name
LeavesHolding(name) ==
    IF inventory = <<>> THEN {}
    ELSE {g \in LeafNames :
            \E i \in DOMAIN LeafHosts(inventory, g) :
                LeafHosts(inventory, g)[i].name = name}

\* every host entry of the built tree, as <<leaf, position>>
Entries ==
    IF inventory = <<>> THEN {}
    ELSE UNION {{<<g, i>> : i \in DOMAIN LeafHosts(inventory, g)} : g \in LeafNames}

EntryAt(e) == LeafHosts(inventory, e[1])[e[2]]

\* main has run the pipeline to its end
PipelineCompleted == pc \in {"write", "done"} /\ IsValidRange(network_range)

ExcludedNotLive(a)   == a \notin PingUp
ExcludedSshClosed(a) == a \in PingUp /\ a \notin SshOpen
PlacedInOneLeaf(a)   == Cardinality(LeavesHolding(Hostname(a))) = 1

\* C1: once the pipeline has completed, every expanded address is in exactly
\* one of: not live, live with the service closed, host of exactly one leaf.
C1_ExactlyOneOutcome ==
    PipelineCompleted =>
        \A a \in Range(hosts) :
            Cardinality({o \in {"not_live", "ssh_closed", "placed"} :
                \/ o = "not_live" /\ ExcludedNotLive(a)
                \/ o = "ssh_closed" /\ ExcludedSshClosed(a)
                \/ o = "placed" /\ PlacedInOneLeaf(a)}) = 1

C1_Witness ==
    /\ PipelineCompleted
    /\ inventory # <<>>
    /\ \E a \in Range(hosts) : PlacedInOneLeaf(a)
    /\ \E a \in Range(hosts) : ExcludedSshClosed(a)

ServiceProbed == {a \in DOMAIN sshFut : sshFut[a] # "new"}

\* C2: an address is service-probed only after the first pass confirmed it
\* live, and the second pass exists only once every ping future is collected.
C2_ServiceAfterReachability ==
    /\ \A a \in ServiceProbed :
        /\ a \in PingUp
        /\ a \in Range(live_hosts)
        /\ pingFut[a] = "collected"
    /\ (ssh_bound > 0 \/ ServiceProbed # {}) =>
            \A a \in DOMAIN pingFut : pingFut[a] = "collected"

C2_Witness ==
    /\ \E a \in DOMAIN sshFut : sshFut[a] = "running"
    /\ \E a \in DOMAIN pingFut : a \notin PingUp

DiscoverReturned == pc \in {"main_check", "write", "done"}

\* C3: for every worker count of at least 1 the run does not fail and the
\* returned set is the set of responders that are live with the service open.
C3_AnyWorkerCount ==
    (max_workers >= 1 /\ IsValidRange(network_range)) =>
        /\ pc # "crashed"
        /\ DiscoverReturned =>
                Range(discovered_hosts) = PingUp \cap SshOpen

\* C4, as stated: each pass keeps within its bound, and the bound of the
\* second pool can be set to any value whatever the bound of the first.
C4_IndependentBounds ==
    /\ Cardinality(InFlight(pingFut)) <= max_workers
    /\ Cardinality(InFlight(sshFut)) <= ssh_bound
    /\ pc = "ssh_pool" => \A b \in 1..MaxWorkers : ENABLED CreateSshPool(b)

\* C4: at most max_workers pings are in flight, at most max_workers // 2
\* connects are in flight, no ping is in flight during the second pass, and
\* the bound of the second pool is max_workers // 2.
C4_BoundedInFlight ==
    /\ Cardinality(InFlight(pingFut)) <= max_workers
    /\ Cardinality(InFlight(sshFut)) <= max_workers \div 2
    /\ InFlight(sshFut) # {} => InFlight(pingFut) = {}
    /\ ssh_bound \in {0, max_workers \div 2}

C4_Witness ==
    /\ sshQueue # <<>>
    /\ Cardinality(InFlight(sshFut)) = ssh_bound
    /\ ssh_bound < max_workers

\* C5: a failed probe is stored as a returned None, never as an exception;
\* an address is forwarded exactly when its own probe was positive and has
\* been collected; the run fails only where a pool cannot be created.
C5_FailedProbeOnlyExcludes ==
    /\ \A a \in DOMAIN pingFut :
        /\ pingFut[a] \in {"finished", "collected"} => pingRes[a].kind = "returned"
        /\ a \in Range(live_hosts) <=> (pingFut[a] = "collected" /\ a \in PingUp)
    /\ \A a \in DOMAIN sshFut :
        /\ sshFut[a] \in {"finished", "collected"} => sshRes[a].kind = "returned"
        /\ a \in Range(ssh_hosts) <=> (sshFut[a] = "collected" /\ a \in SshOpen)
    /\ pc = "crashed" => (max_workers <= 0 \/ max_workers \div 2 <= 0)

C5_Witness ==
    /\ DiscoverReturned
    /\ \E a \in DOMAIN pingFut :
        ping_reply[a] = "exception" /\ pingFut[a] = "collected"
    /\ discovered_hosts # <<>>

\* the bin table: inclusive octet ranges, group, OS tag
BinTable ==
    { <<1, 10, "cisco_routers", "ios">>,
      <<11, 30, "cisco_switches", "ios">>,
      <<31, 40, "arista_switches", "eos">>,
      <<41, 50, "juniper_routers", "junos">>,
      <<51, 60, "palo_alto_firewalls", "panos">>,
      <<61, 70, "fortinet_firewalls", "fortios">> }

BinsOf(octet) == {b \in BinTable : b[1] <= octet /\ octet <= b[2]}

\* C6: the classifier returns the group and OS tag of the one bin that holds
\* the last octet, and unknown_devices/unknown when no bin holds it.
C6_BinTable ==
    (pc = "returned" /\ ip_arg # <<>>) =>
        /\ Cardinality(BinsOf(ip_arg[4])) <= 1
        /\ \A b \in BinsOf(ip_arg[4]) : ret = <<b[3], b[4]>>
        /\ BinsOf(ip_arg[4]) = {} => ret = <<"unknown_devices", "unknown">>

C6_Witness ==
    /\ pc = "returned"
    /\ ip_arg # <<>>
    /\ ip_arg[4] = 70
    /\ ret = <<"fortinet_firewalls", "fortios">>

\* the address a host name spells: "device-", then four numbers with "-"
\* between them; <<>> when the name has another shape
AddressOfName(name) ==
    IF Len(name) = 8 /\ name[1] = "device-"
                     /\ \A i \in {3, 5, 7} : name[i] = "-"
    THEN <<ParseInt(<<name[2]>>), ParseInt(<<name[4]>>),
           ParseInt(<<name[6]>>), ParseInt(<<name[8]>>)>>
    ELSE <<>>

\* C8: no two host entries of a built tree have the same host name, each
\* host name spells exactly one input address, the one its entry is for, and
\* every input address has an entry.
C8_UniqueHostnames ==
    pc = "returned" /\ ip_arg = <<>> =>
        /\ \A e, f \in Entries : EntryAt(e).name = EntryAt(f).name => e = f
        /\ \A e \in Entries :
            /\ AddressOfName(EntryAt(e).name) \in Range(discovered_hosts)
            /\ EntryAt(e).vars.ansible_host = Str(AddressOfName(EntryAt(e).name))
        /\ \A a \in Range(discovered_hosts) :
            \E e \in Entries : AddressOfName(EntryAt(e).name) = a

C8_Witness ==
    /\ pc = "returned"
    /\ {<<10, 0, 0, 5>>, <<10, 0, 1, 5>>, <<10, 0, 0, 15>>} = Range(discovered_hosts)
    /\ Cardinality(Entries) = 3

\* C9: a build whose input has two entries with the same host name fails
\* with DuplicateHostError.
C9_DuplicateHostFails ==
    (/\ pc = "returned"
     /\ ip_arg = <<>>
     /\ \E i, j \in DOMAIN discovered_hosts :
            i # j /\ Hostname(discovered_hosts[i]) = Hostname(discovered_hosts[j]))
        => build_error = "DuplicateHostError"

\* C10: every input address has its host entry in the leaf group the
\* classifier names for it and in no other, and every entry of the tree is
\* the entry of an input address.
C10_OwnedByClassifiedLeaf ==
    pc = "returned" /\ ip_arg = <<>> =>
        /\ \A a \in Range(discovered_hosts) :
            LeavesHolding(Hostname(a)) = {classify_device_type(a)[1]}
        /\ \A e \in Entries :
            \E a \in Range(discovered_hosts) :
                /\ EntryAt(e).name = Hostname(a)
                /\ EntryAt(e).vars.ansible_host = Str(a)
                /\ e[1] = classify_device_type(a)[1]

C10_Witness ==
    /\ pc = "returned"
    /\ \E i \in DOMAIN LeafHosts(inventory, "arista_switches") :
        LeafHosts(inventory, "arista_switches")[i].name = Hostname(<<10, 0, 0, 35>>)
    /\ LeavesHolding(Hostname(<<10, 0, 0, 15>>)) = {"cisco_switches"}


----------------------------------------------------------------------------
(* Overlay groups *)

\* the overlay of each vendor group
VendorOverlay ==
    [cisco_devices     |-> "all_cisco",
     arista_devices    |-> "all_arista",
     juniper_devices   |-> "all_juniper",
     palo_alto_devices |-> "all_palo_alto",
     fortinet_devices  |-> "all_fortinet"]

ClassOverlays == {"all_switches", "all_routers", "all_firewalls", "production"}

\* the overlays a tree with these top-level groups is said to have
OverlaysFor(top) ==
    {VendorOverlay[v] : v \in top \cap DOMAIN VendorOverlay} \cup ClassOverlays

HostNames(hostSeq) == {hostSeq[i].name : i \in DOMAIN hostSeq}

\* a reference names a group of the document, through the groups it is
\* nested in: parent:child
RefResolves(doc, ref) ==
    /\ Len(ref) % 2 = 1
    /\ \A k \in DOMAIN ref :
        IF k % 2 = 0 THEN ref[k] = ":"
        ELSE /\ ref[k] \in DOMAIN doc
             /\ k > 1 => doc[ref[k]].parent = ref[k - 2]

\* the hosts of a group of the document and of the groups nested in it
RECURSIVE HostsUnder(_, _)
HostsUnder(doc, g) ==
    HostNames(doc[g].hosts) \cup
    UNION {HostsUnder(doc, c) : c \in {x \in DOMAIN doc : doc[x].parent = g}}

\* the hosts an overlay of the document stands for
Resolve(doc, g) ==
    UNION {HostsUnder(doc, r[Len(r)]) : r \in Range(doc[g].refs)}

BuilderReturned   == pc = "returned" /\ inventory # <<>>
GeneratorReturned == pc = "returned" /\ document # <<>>

----------------------------------------------------------------------------
(* Outcomes of main *)

\* C13: with a range that does not parse, the message is printed and no
\* probe is ever submitted or started, no inventory is built, no file written.
C13_InvalidRangeStopsEarly ==
    ~IsValidRange(network_range) =>
        /\ hosts = <<>> /\ pingFut = <<>> /\ pingQueue = <<>> /\ live_hosts = <<>>
        /\ sshFut = <<>> /\ sshQueue = <<>> /\ ssh_hosts = <<>> /\ ssh_bound = 0
        /\ inventory = <<>>
        /\ output_file = "absent"
        /\ pc \in {"start", "main_check", "done"}
        /\ pc # "start" => (stdout # <<>> /\ stdout[1] = "invalid_range")

C13_Witness ==
    /\ ~IsValidRange(network_range)
    /\ pc = "done"
    /\ network_range.prefix = 33

\* C14: a run that ends on an invalid range or on a write error ends with a
\* status other than that of a successful run.
C14_FailuresSignalled ==
    pc = "done" =>
        (("invalid_range" \in Range(stdout) \/ "write_error" \in Range(stdout))
            => exit_status # 0)

\* C15, as stated: when main returns and nothing was discovered in a valid
\* range, an inventory with seven empty leaf groups was built and written.
C15_EmptyInventoryProduced ==
    (pc = "done" /\ IsValidRange(network_range) /\ discovered_hosts = <<>>) =>
        /\ inventory # <<>>
        /\ \A g \in LeafNames : LeafHosts(inventory, g) = <<>>
        /\ output_file = "written"
        /\ exit_status = 0

\* C15: when no address of a valid range is live with the service open, no
\* inventory is built and no file is written; when main returns it has
\* printed the no-devices message and the status is 0; the run fails
\* (status 1) only where a pool cannot be created.
C15_NoInventoryWhenEmpty ==
    (IsValidRange(network_range) /\ PingUp \cap SshOpen = {}) =>
        /\ inventory = <<>>
        /\ output_file = "absent"
        /\ "inventory_created" \notin Range(stdout)
        /\ pc = "done" => /\ exit_status = 0
                          /\ stdout[Len(stdout)] = "no_devices"
                          /\ discovered_hosts = <<>>
        /\ pc = "crashed" => (max_workers \div 2 <= 0 /\ exit_status = 1)

C15_Witness ==
    /\ pc = "done"
    /\ network_range = [addr |-> <<203, 0, 113, 0>>, prefix |-> 30]
    /\ PingUp = {}
    /\ Len(hosts) = 2


----------------------------------------------------------------------------
(* Host records *)

\* the fields of a host record that carry a credential
CredentialFields == {"ansible_user", "ansible_password", "panos_username",
                     "panos_password", "ansible_httpapi_session_key"}

\* the variables a credential field may refer to
SecretVariables ==
    {"vault_" \o v \o "_" \o k : v \in {"cisco", "arista", "juniper", "panos"},
                                 k \in {"username", "password"}}
    \cup {"vault_fortigate_api_token", "panos_username", "panos_password"}

\* a template that stands for the value of a variable
Placeholder(variable) == "{{ " \o variable \o " }}"

IsPlaceholder(value) == \E v \in SecretVariables : value = Placeholder(v)

\* C16: in every host record of a built tree each credential field, and the
\* username and password of panos_provider, is a placeholder naming a secret
\* variable; every record outside unknown_devices has such a field.
C16_CredentialsArePlaceholders ==
    BuilderReturned /\ ip_arg = <<>> =>
        \A e \in Entries :
            LET v == EntryAt(e).vars
            IN /\ \A f \in CredentialFields \cap DOMAIN v : IsPlaceholder(v[f])
               /\ "panos_provider" \in DOMAIN v =>
                    /\ IsPlaceholder(v.panos_provider.username)
                    /\ IsPlaceholder(v.panos_provider.password)
               /\ e[1] # "unknown_devices" =>
                    CredentialFields \cap DOMAIN v # {}

C16_Witness ==
    /\ BuilderReturned
    /\ {e[1] : e \in Entries} =
            {"cisco_routers", "palo_alto_firewalls", "fortinet_firewalls"}


\* the connection fields of each row of the reference table
RowTransport ==
    [cisco_routers       |-> "network_cli",
     cisco_switches      |-> "network_cli",
     arista_switches     |-> "httpapi",
     juniper_routers     |-> "netconf",
     palo_alto_firewalls |-> "local",
     fortinet_firewalls  |-> "httpapi"]

RowOsTag ==
    [cisco_routers       |-> "ios",
     cisco_switches      |-> "ios",
     arista_switches     |-> "eos",
     juniper_routers     |-> "junos",
     palo_alto_firewalls |-> "panos",
     fortinet_firewalls  |-> "fortios"]

TlsRows == {"arista_switches", "fortinet_firewalls"}

\* a record has the transport of the row of its leaf, with TLS on the
\* http-api rows
HasRowTransport(g, v) ==
    /\ "ansible_connection" \in DOMAIN v
    /\ v.ansible_connection = RowTransport[g]
    /\ g \in TlsRows =>
            ("ansible_httpapi_use_ssl" \in DOMAIN v /\ v.ansible_httpapi_use_ssl = TRUE)
    /\ g \notin TlsRows => "ansible_httpapi_use_ssl" \notin DOMAIN v

\* a record of unknown_devices has the three base fields only
IsBareRecord(v) == DOMAIN v = {"ansible_host", "device_role", "site"}

\* C18, as stated: every record has the transport and the OS tag of the row
\* of its leaf, panos and fortios included; unknown_devices records are bare.
C18_RowFieldsWithOsTag ==
    BuilderReturned /\ ip_arg = <<>> =>
        \A e \in Entries :
            LET v == EntryAt(e).vars
            IN IF e[1] = "unknown_devices" THEN IsBareRecord(v)
               ELSE /\ HasRowTransport(e[1], v)
                    /\ "ansible_network_os" \in DOMAIN v
                    /\ v.ansible_network_os = RowOsTag[e[1]]

\* C18: every record has the transport of the row of its leaf; it has the
\* OS tag of the row in the ios, eos and junos rows and no OS tag field in
\* palo_alto_firewalls and fortinet_firewalls; unknown_devices records are
\* bare.
C18_RowFields ==
    BuilderReturned /\ ip_arg = <<>> =>
        \A e \in Entries :
            LET v == EntryAt(e).vars
            IN IF e[1] = "unknown_devices" THEN IsBareRecord(v)
               ELSE /\ HasRowTransport(e[1], v)
                    /\ IF e[1] \in {"palo_alto_firewalls", "fortinet_firewalls"}
                       THEN "ansible_network_os" \notin DOMAIN v
                       ELSE /\ "ansible_network_os" \in DOMAIN v
                            /\ v.ansible_network_os = RowOsTag[e[1]]

C18_Witness ==
    /\ BuilderReturned
    /\ {e[1] : e \in Entries} =
            {"arista_switches", "palo_alto_firewalls", "unknown_devices"}

\* a record without the address of its host
WithoutHost(v) == [k \in DOMAIN v \ {"ansible_host"} |-> v[k]]

\* C19: two records of the same leaf group differ in the host address only.
C19_OneProfilePerGroup ==
    BuilderReturned /\ ip_arg = <<>> =>
        \A e, f \in Entries :
            e[1] = f[1] => WithoutHost(EntryAt(e).vars) = WithoutHost(EntryAt(f).vars)

C19_Witness ==
    /\ BuilderReturned
    /\ Len(LeafHosts(inventory, "cisco_routers")) = 2
    /\ Len(LeafHosts(inventory, "juniper_routers")) = 1


(***************************************************************************)
(* Accumulators of the two passes                                          *)
(***************************************************************************)

NoDuplicates(seq) == \A i, j \in DOMAIN seq : seq[i] = seq[j] => i = j

CollectedPositive(fut, reply, positive) ==
    {a \in DOMAIN fut : fut[a] = "collected" /\ reply[a] = positive}

PingPassOver == pc \in {"ssh_pool", "ssh_submit", "ssh_collect"} \/ DiscoverReturned

\* C20: in every interleaving, the list of each pass holds exactly the
\* addresses whose collected probe was positive, each once; when the pass is
\* over it holds every address whose probe is positive.
C20_AccumulatorsExact ==
    /\ NoDuplicates(live_hosts)
    /\ NoDuplicates(ssh_hosts)
    /\ pc # "crashed" =>
        /\ Range(live_hosts) = CollectedPositive(pingFut, ping_reply, "rc_zero")
        /\ Range(ssh_hosts) = CollectedPositive(sshFut, ssh_reply, "connected")
    /\ (PingPassOver /\ IsValidRange(network_range)) =>
            Range(live_hosts) = Range(hosts) \cap PingUp
    /\ (DiscoverReturned /\ IsValidRange(network_range)) =>
            Range(ssh_hosts) = Range(hosts) \cap PingUp \cap SshOpen

C20_Witness ==
    /\ pc = "main_check"
    /\ Len(live_hosts) = 2
    /\ live_hosts # Sorted(live_hosts)
    /\ Len(ssh_hosts) = 2
    /\ ssh_hosts = Sorted(ssh_hosts)


(***************************************************************************)
(* Round trip of the written inventory                                     *)
(***************************************************************************)

ReadBack == pc = "loaded"

\* the hosts of a leaf group of a loaded document, by name
ItemsAt(node, key) ==
    LET hit == {i \in DOMAIN node.items : node.items[i].key = StrNode(key)}
    IN IF node.kind # "map" \/ hit = {} THEN OtherNode("missing")
       ELSE node.items[CHOOSE i \in hit : TRUE].value

LoadedLeaf(node, g) ==
    LET top == ItemsAt(ItemsAt(node, "all"), "children")
        parent == IF g = "unknown_devices" THEN top
                  ELSE ItemsAt(ItemsAt(top, CHOOSE p \in DOMAIN EmptyInventory.all.children :
                           /\ "children" \in DOMAIN EmptyInventory.all.children[p]
                           /\ g \in DOMAIN EmptyInventory.all.children[p].children),
                        "children")
    IN ItemsAt(ItemsAt(parent, g), "hosts")

\* C17: in both encodings, what is read back from the written document is
\* the tree that was written: every leaf group holds the same hosts, each
\* with the same fields of the same types and values.
C17_RoundTrip ==
    ReadBack =>
        /\ ret = NodeOfInventory(inventory)
        /\ \A g \in LeafNames :
            LET hs == LeafHosts(inventory, g)
                rd == LoadedLeaf(ret, g)
            IN /\ rd.kind = "map"
               /\ Len(rd.items) = Len(hs)
               /\ \A i \in DOMAIN hs :
                    /\ rd.items[i].key = StrNode(Join(hs[i].name))
                    /\ rd.items[i].value = NodeOfVars(hs[i].vars)

C17_Witness ==
    /\ ReadBack
    /\ document.format = "yaml"
    /\ Len(LeafHosts(inventory, "palo_alto_firewalls")) = 1
    /\ Len(LeafHosts(inventory, "arista_switches")) = 1
    /\ Len(LeafHosts(inventory, "cisco_routers")) = 1


(***************************************************************************)
(* Probes per address                                                      *)
(***************************************************************************)

\* how far the future of an address has come
Rank(status) ==
    CASE status = "new"       -> 0
      [] status = "queued"    -> 1
      [] status = "running"   -> 2
      [] status = "finished"  -> 3
      [] status = "collected" -> 4

\* the probe of an address is started at most once and never started again
OneWay(fut, futNext) ==
    \A a \in DOMAIN fut \cap DOMAIN futNext :
        Rank(futNext[a]) \in {Rank(fut[a]), Rank(fut[a]) + 1}

QueuedOnce(fut, queue) ==
    /\ NoDuplicates(queue)
    /\ Range(queue) = {a \in DOMAIN fut : fut[a] = "queued"}

ProbedOnceAtReturn ==
    (DiscoverReturned /\ IsValidRange(network_range)) =>
        /\ NoDuplicates(hosts)
        /\ DOMAIN pingFut = Range(hosts)
        /\ \A a \in Range(hosts) : pingFut[a] = "collected"
        /\ DOMAIN sshFut = Range(hosts) \cap PingUp
        /\ \A a \in DOMAIN sshFut : sshFut[a] = "collected"

\* C21: the future of every address moves one way through submitted,
\* started, ended and collected, an address is queued at most once at a
\* time, and when discover_network_devices returns every expanded address
\* has had its one ping and every live address its one service probe.
C21_OneProbePerAddress ==
    /\ [](QueuedOnce(pingFut, pingQueue) /\ QueuedOnce(sshFut, sshQueue)
            /\ ProbedOnceAtReturn)
    /\ [][OneWay(pingFut, pingFut') /\ OneWay(sshFut, sshFut')]_vars

C21_Witness ==
    /\ pc = "main_check"
    /\ \E a \in Range(hosts) : ping_reply[a] = "rc_nonzero" /\ pingFut[a] = "collected"
    /\ \E a \in DOMAIN sshFut : ssh_reply[a] = "errno" /\ sshFut[a] = "collected"


(***************************************************************************)
(* Termination of the discovery                                            *)
(***************************************************************************)

\* C22: for a valid range and a worker count of at least 1, under fair
\* scheduling, discover_network_devices eventually returns: every probe
\* ends, both passes drain.
C22_EventuallyReturns ==
    (IsValidRange(network_range) /\ max_workers >= 1) ~> DiscoverReturned


(***************************************************************************)
(* Candidate addresses                                                     *)
(***************************************************************************)

Expanded == pc # "start" /\ IsValidRange(network_range)

\* the prefix bits of a are those of the range
InsideRange(a, r) ==
    \A i \in 1..4 :
        a[i] \div Pow2(HostBits(r.prefix, i)) = r.addr[i] \div Pow2(HostBits(r.prefix, i))

HostBitsAllZero(a, r) == \A i \in 1..4 : a[i] % Pow2(HostBits(r.prefix, i)) = 0

HostBitsAllOne(a, r) ==
    \A i \in 1..4 : a[i] % Pow2(HostBits(r.prefix, i)) = Pow2(HostBits(r.prefix, i)) - 1

IsEdgeAddress(a, r) == HostBitsAllZero(a, r) \/ HostBitsAllOne(a, r)

Probed == {a \in DOMAIN pingFut : pingFut[a] # "new"}
            \cup {a \in DOMAIN sshFut : sshFut[a] # "new"}

\* C23: the candidates of a valid range are at least one and lie inside the
\* range; in a subnet of more than 2 addresses the network and the broadcast
\* address are no candidates, are never probed and are in no inventory entry.
C23_CandidatesInsideRange ==
    Expanded =>
        /\ hosts # <<>>
        /\ \A a \in Range(hosts) \cup Probed : InsideRange(a, network_range)
        /\ network_range.prefix <= 30 =>
            /\ \A a \in Range(hosts) \cup Probed : ~IsEdgeAddress(a, network_range)
            /\ \A e \in Entries :
                ~IsEdgeAddress(AddressOfName(EntryAt(e).name), network_range)

C23_Witness ==
    /\ pc = "write"
    /\ network_range = [addr |-> <<192, 168, 1, 9>>, prefix |-> 30]
    /\ Cardinality(Entries) = 2


(***************************************************************************)
(* Order of the returned list, shape of the built tree                     *)
(***************************************************************************)

Ascending(seq) == \A i, j \in DOMAIN seq : i < j => AddrLess(seq[i], seq[j])

Responders == Range(hosts) \cap PingUp \cap SshOpen

\* the addresses of the entries of a leaf group, in the order of the entries
LeafAddresses(g) ==
    [i \in DOMAIN LeafHosts(inventory, g) |->
        AddressOfName(LeafHosts(inventory, g)[i].name)]

\* C25: whatever the order of completion, the returned list is the
\* responders in strictly ascending address order, and the inventory built
\* from it holds exactly the responders, ascending inside each leaf group.
C25_ReturnedListSorted ==
    (DiscoverReturned /\ IsValidRange(network_range)) =>
        /\ Ascending(discovered_hosts)
        /\ Range(discovered_hosts) = Responders
        /\ inventory # <<>> =>
            /\ \A g \in LeafNames : Ascending(LeafAddresses(g))
            /\ UNION {Range(LeafAddresses(g)) : g \in LeafNames} = Responders

C25_Witness ==
    /\ pc = "write"
    /\ Len(ssh_hosts) = 2
    /\ ssh_hosts # discovered_hosts
    /\ \E g \in LeafNames : Len(LeafHosts(inventory, g)) = 2

SkeletonLeaves ==
    [cisco_devices     |-> {"cisco_routers", "cisco_switches"},
     palo_alto_devices |-> {"palo_alto_firewalls"},
     fortinet_devices  |-> {"fortinet_firewalls"},
     juniper_devices   |-> {"juniper_routers"},
     arista_devices    |-> {"arista_switches"}]

HasSkeleton(inv) ==
    /\ DOMAIN inv = {"all"}
    /\ DOMAIN inv.all = {"children"}
    /\ DOMAIN inv.all.children = DOMAIN SkeletonLeaves \cup {"unknown_devices"}
    /\ DOMAIN inv.all.children.unknown_devices = {"hosts"}
    /\ \A v \in DOMAIN SkeletonLeaves :
        /\ DOMAIN inv.all.children[v] = {"children"}
        /\ DOMAIN inv.all.children[v].children = SkeletonLeaves[v]
        /\ \A g \in SkeletonLeaves[v] :
            DOMAIN inv.all.children[v].children[g] = {"hosts"}

\* C26: for a list of distinct addresses the built tree has the fixed
\* skeleton and as many host entries over its leaf groups as the list has
\* addresses.
C26_SkeletonAndCount ==
    (BuilderReturned /\ ip_arg = <<>> /\ NoDuplicates(discovered_hosts)) =>
        /\ HasSkeleton(inventory)
        /\ Cardinality(Entries) = Len(discovered_hosts)

C26_Witness ==
    /\ BuilderReturned
    /\ NoDuplicates(discovered_hosts)
    /\ Len(discovered_hosts) = 3
    /\ Len(LeafHosts(inventory, "unknown_devices")) = 1
    /\ Len(LeafHosts(inventory, "cisco_routers")) = 2


(***************************************************************************)
(* Order of the written document                                           *)
(***************************************************************************)

Written == pc \in {"dumped", "loaded"}

\* the keys of the written document, in the order they are written
WrittenKeys ==
    IF document.format = "yaml"
    THEN [i \in DOMAIN document.body |->
            LET k == document.body[i].key
            IN IF Char(k, 1) = "'" THEN SubSeq(k, 2, Len(k) - 1) ELSE k]
    ELSE LET at  == {i \in DOMAIN document.body :
                        i < Len(document.body) /\ document.body[i + 1] = ":"}
             nth(n) == CHOOSE i \in at : Cardinality({j \in at : j < i}) = n - 1
         IN [n \in 1..Cardinality(at) |->
                SubSeq(document.body[nth(n)], 2, Len(document.body[nth(n)]) - 1)]

IsHostKey(k) == Len(k) > 7 /\ SubSeq(k, 1, 7) = "device-"

\* the groups of the skeleton in the order of the literal
GroupsAsInserted ==
    <<"cisco_devices", "cisco_routers", "cisco_switches",
      "palo_alto_devices", "palo_alto_firewalls",
      "fortinet_devices", "fortinet_firewalls",
      "juniper_devices", "juniper_routers",
      "arista_devices", "arista_switches", "unknown_devices">>

IsGroupKey(k) == k \in Range(GroupsAsInserted)

IsLeafName(k) == k \in LeafNames

RECURSIVE HostsAsInserted(_)
HostsAsInserted(leaves) ==
    IF leaves = <<>> THEN <<>>
    ELSE LET hs == LeafHosts(inventory, Head(leaves))
         IN [i \in DOMAIN hs |-> Join(hs[i].name)] \o HostsAsInserted(Tail(leaves))

\* C24: in both encodings the written document names the groups in the
\* order of the skeleton and the hosts of each leaf group in the order the
\* builder stored them.
C24_OrderPreserved ==
    Written =>
        /\ SelectSeq(WrittenKeys, IsGroupKey) = GroupsAsInserted
        /\ SelectSeq(WrittenKeys, IsHostKey)
                = HostsAsInserted(SelectSeq(GroupsAsInserted, IsLeafName))

C24_Witness ==
    /\ pc = "dumped"
    /\ document.format = "json"
    /\ discovered_hosts = << <<10, 0, 0, 200>>, <<10, 0, 1, 5>>, <<10, 0, 0, 5>> >>


(***************************************************************************)
(* Sampler threads of the performance monitor                              *)
(***************************************************************************)

MetricsMade(c) == read_len[c] # -1

\* C27: once the metrics of a run are made, the sampler of that run has
\* ended and appends nothing more; and at most one sampler is alive at any
\* time.
C27_SamplerStoppedAtRead ==
    pc \in {"mon_call", "mon_start", "mon_communicate", "mon_stop", "mon_join",
            "mon_metrics", "mon_return", "mon_pause", "mon_done"} =>
        /\ \A c \in Runs :
            MetricsMade(c) => /\ ~SamplerAlive(c)
                              /\ samples[c] = read_len[c]
        /\ Cardinality({c \in Runs : SamplerAlive(c)}) <= 1


(***************************************************************************)
(* Results of the syntax tests                                             *)
(***************************************************************************)

SyntaxReturned == pc = "syn_returned"

ExpectedStatus ==
    [rc_zero |-> "PASS", rc_nonzero |-> "FAIL", exception |-> "ERROR", missing |-> "FAIL"]

ResultsFor(pb) == {i \in DOMAIN ret : ret[i].playbook = pb}

\* C28: the call returns one result for each playbook found, with the
\* status its check ended in, parallel or not (and the one SKIP result when
\* no playbook is found); no more than 4 checks run at once.
C28_OneResultPerPlaybook ==
    /\ Cardinality(InFlight(synFut)) <= 4
    /\ SyntaxReturned =>
        IF playbooks = <<>> THEN ret = <<Result("N/A", "SKIP")>>
        ELSE /\ Len(ret) = Len(playbooks)
             /\ \A pb \in Range(playbooks) :
                    /\ Cardinality(ResultsFor(pb)) = 1
                    /\ \A i \in ResultsFor(pb) :
                            ret[i].status = ExpectedStatus[syntax_reply[pb]]

C28_Witness ==
    /\ SyntaxReturned
    /\ parallel
    /\ Len(playbooks) = 5
    /\ ret[1].playbook = 5
    /\ ret[5].playbook = 1


(***************************************************************************)
(* Exit status of the test suite                                           *)
(***************************************************************************)

NumberOf(status) == Cardinality({i \in DOMAIN all_results : all_results[i] = status})

BelowNinety == NumberOf("PASS") * 10 < Len(all_results) * 9 \/ all_results = <<>>

Unchanged(c) == ~c.invoked /\ c.after = c.before

\* C30, as stated: encrypt_file on an encrypted file returns success without
\* a call of ansible-vault and leaves the file as it is, so that no file is
\* encrypted twice; decrypt_file does the same on a file that is not
\* encrypted; both return failure and change nothing on a missing file.
C30_IdempotentOnAnyFile ==
    /\ vault_file # <<>> => vault_file.depth <= 1
    /\ \A i \in DOMAIN vault_log :
        LET c == vault_log[i]
        IN /\ ~c.before.exists => ~c.result /\ Unchanged(c)
           /\ (c.op = "encrypt" /\ c.before.exists /\ c.before.depth > 0) =>
                    c.result /\ Unchanged(c)
           /\ (c.op = "decrypt" /\ c.before.exists /\ c.before.depth = 0) =>
                    c.result /\ Unchanged(c)

\* C30: the same for a file that can be read; an encrypted file that cannot
\* be read is taken as not encrypted, ansible-vault is called on it, fails,
\* and the file stays as it is.
C30_IdempotentOnReadableFile ==
    /\ vault_file # <<>> => vault_file.depth <= 1
    /\ \A i \in DOMAIN vault_log :
        LET c == vault_log[i]
        IN /\ ~c.before.exists => ~c.result /\ Unchanged(c)
           /\ (c.op = "encrypt" /\ c.before.exists /\ c.before.depth > 0) =>
                IF c.before.readable THEN c.result /\ Unchanged(c)
                ELSE c.invoked /\ ~c.result /\ c.after = c.before
           /\ (c.op = "decrypt" /\ c.before.exists /\ c.before.depth = 0) =>
                    c.result /\ Unchanged(c)

C30_Witness ==
    /\ Len(vault_log) = 3
    /\ vault_log[1].op = "encrypt" /\ vault_log[1].invoked /\ vault_log[1].result
    /\ vault_log[2].op = "encrypt" /\ ~vault_log[2].invoked /\ vault_log[2].result
    /\ vault_log[3].op = "decrypt" /\ vault_log[3].after.depth = 0

====
